---- MODULE Spec2Model ----
(***************************************************************************)
(* The indirect-call dispatcher ad_call() of extra/call.cpp                *)
(* (src/unnamed/part_001): its three strategies (getter, recording,        *)
(* evaluated), the degenerate case, the scoped RAII helpers, the CallOp    *)
(* that hooks a call into the AD graph, and the catch-all that runs the    *)
(* payload cleanup.                                                        *)
(*                                                                         *)
(* One behaviour is one call of ad_call: Call draws the parameters and     *)
(* runs up to the first user_fn invocation, every later action runs from   *)
(* one user_fn invocation to the next (or to the return / the catch-all),  *)
(* and DestroyCallOp is the AD graph dropping an attached CallOp.          *)
(***************************************************************************)
EXTENDS Integers, Sequences, FiniteSets, TLC

\* ------------------------------------------------------------------ bounds

\* Largest callable count / registry id bound that is enumerated.
MaxCallables == 2
\* Number of lanes of a vector input.
Width == 2

\* ----------------------------------------------------------------- handles

\* The backend the call is made for, and another one a callable may use.
Backend == "llvm"
OtherBackend == "cuda"

\* An AD-tagged handle: ir = IR id (0: empty), ad = AD id (0: not tracked),
\* with the attributes the IR keeps for it: type, backend, state, lanes.
Handle(ir, ad, ty, be, st, val) ==
    [ir |-> ir, ad |-> ad, ty |-> ty, be |-> be, st |-> st, val |-> val]

ZeroHandle == Handle(0, 0, "void", "none", "invalid", <<>>)

\* jit_var_size(): number of lanes; 0 for the empty handle.
jit_var_size(h) == Len(h.val)

\* The lane k of a handle, with size-1 handles broadcasting.
Lane(h, k) == IF Len(h.val) = 1 THEN h.val[1] ELSE h.val[k]

\* jit_var_literal(backend, type, &zero, size): a zero literal.
jit_var_literal_zero(ty, size) ==
    Handle(90, 0, ty, Backend, "literal", [k \in 1..size |-> 0])

\* jit_var_is_zero_literal(mask)
jit_var_is_zero_literal(h) ==
    h.ir # 0 /\ h.st = "literal" /\ \A k \in 1..Len(h.val) : h.val[k] = 0

\* Detach the AD part: (index << 32) >> 32.
Detached(h) == [h EXCEPT !.ad = 0]

Front(s) == SubSeq(s, 1, Len(s) - 1)
Last(s) == s[Len(s)]

RECURSIVE SeqMax(_)
SeqMax(s) == IF s = <<>> THEN 0
             ELSE LET m == SeqMax(Tail(s)) IN IF Head(s) > m THEN Head(s) ELSE m

\* --------------------------------------------------------------- variables

VARIABLES
    pc,            \* position of ad_call: idle, degenerate, getter, record,
                   \* reduce, post, returned, raised
    err,           \* the failure that was raised ("none" while there is none)
    result,        \* ad_call's return value: "none", "true", "false"
    inp,           \* the parameters of the call
    registry,      \* the instance registry of the domain: id bound, live ids
    flags,         \* JitFlag::VCallRecord (SymbolicCalls) and JitFlag::Symbolic
    callable_count,\* after the registry lookup
    size,          \* the unified size
    strategy,      \* none, degenerate, getter, record, reduce
    i,             \* loop counter of the running strategy (0-based)
    rv,            \* the caller's return-value vector
    rv_refs,       \* per return slot: the references the slot owns on its
                   \* IR variable (jit), and the references that are held on
                   \* the AD node made for it (ad)
    rv_ad,         \* per return slot: some callable returned an AD variable
    rv2,           \* what the last user_fn invocation returned
    rv3,           \* flat buffer of the IR halves returned by all callables
    rec,           \* ad_call_record's locals: checkpoints, inst_id, count
    red,           \* ad_call_reduce's locals: index, buckets, last_size, evals
    stk,           \* mask stack, self, recording scopes, IR cursor
    rc,            \* reference counts of the input handles
    cleanup_calls, \* log of cleanup_fn(payload) invocations, by who made them
    user_calls,    \* log of the user_fn invocations
    op,            \* the CallOp: none, local, attached (kept by the AD graph),
                   \* released (destroyed by the AD graph), dropped (destroyed
                   \* by ad_call); and whether its deleter is set
    emitted,       \* log of the jit_var_call emissions
    bwd,           \* the pass (CallOp::forward or CallOp::backward) of the
                   \* attached CallOp: whether it ran, how it ended, the
                   \* gradients it accumulated
    ifs,           \* the if_stmt call: its inputs, its IfState, what the
                   \* conditional driver has collected, its result
    lp,            \* the while_loop call: its inputs, the loop state, the
                   \* calls of cond and body, its result
    sz             \* the size-unification loop run on its own (SizeSpec)

vars == <<pc, err, result, inp, registry, flags, callable_count, size,
          strategy, i, rv, rv_refs, rv_ad, rv2, rv3, rec, red, stk, rc,
          cleanup_calls, user_calls, op, emitted, bwd, sz, ifs, lp>>

\* ------------------------------------------------------------ RAII helpers

\* jit_var_mask_push / jit_var_mask_pop through scoped_set_mask.
scoped_set_mask_ctor(s, m) ==
    [s EXCEPT !.mask = Append(@, m), !.frames = Append(@, "mask")]

scoped_set_mask_dtor(s) ==
    [s EXCEPT !.mask = Front(@),
              !.lifo = @ /\ s.frames # <<>> /\ Last(s.frames) = "mask",
              !.frames = Front(@)]

\* scoped_record: jit_record_begin + jit_new_scope; the destructor ends the
\* recording, which discards what was recorded when cleanup is set.
scoped_record_ctor(s) ==
    [s EXCEPT !.rec = Append(@, [checkpoint |-> s.cursor,
                                 scope |-> s.scope + 1]),
              !.scope = @ + 1,
              !.frames = Append(@, "record")]

\* scoped_record::checkpoint_and_rewind(): jit_set_scope, then the position
\* of the IR cursor.
checkpoint_and_rewind(s) == s.cursor

\* A scoped_record whose destructor keeps what was recorded.
scoped_record_dtor_Keep(s, cleanup) ==
    [s EXCEPT !.rec = Front(@),
              !.ended = Append(@, FALSE),
              !.lifo = @ /\ s.frames # <<>> /\ Last(s.frames) = "record",
              !.frames = Front(@)]

scoped_record_dtor(s, cleanup) ==
    [s EXCEPT !.rec = Front(@),
              !.cursor = IF cleanup THEN Last(s.rec).checkpoint ELSE @,
              !.ended = Append(@, cleanup),
              !.lifo = @ /\ s.frames # <<>> /\ Last(s.frames) = "record",
              !.frames = Front(@)]

\* scoped_set_self: saves the current (value, index) and installs the new one;
\* the destructor restores what was saved.
scoped_set_self_ctor(s, value, self_index) ==
    [s EXCEPT !.saved = Append(@, s.self),
              !.self = [value |-> value, index |-> self_index],
              !.frames = Append(@, "self")]

scoped_set_self_dtor(s) ==
    [s EXCEPT !.self = Last(s.saved),
              !.saved = Front(@),
              !.lifo = @ /\ s.frames # <<>> /\ Last(s.frames) = "self",
              !.frames = Front(@)]

\* What user code records into the IR: the cursor advances.
Recorded(s, n) == [s EXCEPT !.cursor = @ + n]

\* ------------------------------------------------------------------ inputs

\* instance_index: the empty handle, a scalar, or Width lanes of instance ids.
IndexHandle(val) == Handle(1, 0, "u32", Backend, "evaluated", val)

IndexInputs ==
    {ZeroHandle} \cup {IndexHandle(<<c>>) : c \in 0..1}
    \cup {IndexHandle(v) : v \in [1..Width -> 0..MaxCallables]}

\* mask: absent (the empty handle), a scalar literal, or Width lanes of
\* which one is off (1 = on).
MaskHandle(st, val) == Handle(2, 0, "bool", Backend, st, val)

MaskInputs ==
    {ZeroHandle, MaskHandle("literal", <<0>>), MaskHandle("literal", <<1>>)}
    \cup {MaskHandle("evaluated", v) :
            v \in {w \in [1..Width -> 0..1] :
                     Cardinality({k \in 1..Width : w[k] = 0}) = 1}}

\* args: at most one argument, of size 1, Width or Width + 1, AD-tracked or
\* not; lane k of an argument holds the value k.
ArgHandle(j, ad, n) ==
    Handle(2 + j, IF ad THEN j ELSE 0, "f32", Backend, "evaluated",
           [k \in 1..n |-> k])

ArgInputs ==
    {<<>>} \cup {<<ArgHandle(1, a, n)>> : a \in BOOLEAN, n \in {1, Width, Width + 1}}

\* The registry of the domain: ids 1..bound, of which the live ones resolve.
Registries ==
    {[bound |-> 0, live |-> {}]}
    \cup {[bound |-> MaxCallables, live |-> L] : L \in SUBSET (1..MaxCallables)}

\* jit_registry_ptr(backend, domain, id): 0 (null) for an id that is not live.
jit_registry_ptr(reg, id) == IF id \in reg.live THEN 100 + id ELSE 0

\* jit_registry_id_bound(backend, domain)
jit_registry_id_bound(reg) == reg.bound

CallInputs ==
    [domain : BOOLEAN, callable_count : 0..MaxCallables, is_getter : BOOLEAN,
     index : IndexInputs, mask : MaskInputs, args : ArgInputs,
     cleanup : BOOLEAN, ad : BOOLEAN]

\* ---------------------------------------------------------------- user_fn

\* What one user_fn invocation does: it raises, or it returns a list of
\* handles, each of one of these kinds:
\*   Z  the empty handle
\*   S  a scalar literal shared by all callables (one IR variable)
\*   L  a scalar literal of the callable's own
\*   V  a value computed from the first argument, lane by lane
\*   D  as V, and AD-tracked
\*   M  the callable's coefficient times the first argument, AD-tracked
\*   T  a scalar literal of another type
\*   B  a scalar literal on another backend
\*   W  a literal of Width lanes
\* and, in the call that CallOp::backward makes (backward_cb):
\*   G  the gradient of the first argument: the derivative of what the
\*      callable returned in the forward pass, times the cotangent, which is
\*      the last argument
UserOutcomes ==
    {<<"raise">>, <<>>, <<"Z">>, <<"S">>, <<"L">>, <<"V">>, <<"D">>, <<"M">>,
     <<"T">>, <<"B">>, <<"W">>, <<"L", "S">>}

\* The forward invocation of callable c, by its instance pointer.
ForwardCalls(c) ==
    {n \in 1..Len(user_calls) :
        user_calls[n].ptr = IF inp.domain THEN 100 + c ELSE c - 1}

\* d(result) / d(first argument) of what callable c returned in the forward
\* pass in its differentiable slot: c for the kind M, 1 for the kind D, 0
\* when it returned nothing that depends on the argument.
Coefficient(c) ==
    IF ForwardCalls(c) = {} THEN 0
    ELSE LET ret == user_calls[CHOOSE n \in ForwardCalls(c) : TRUE].ret
         IN IF \E j \in 1..Len(ret) : ret[j] = "M" THEN c
            ELSE IF \E j \in 1..Len(ret) : ret[j] = "D" THEN 1
            ELSE 0

\* The value callable c computes in one lane from the argument value a.
UserVal(c, a) == 10 * c + a

UserHandle(kind, c, j, args) ==
    LET lanes == IF args = <<>> THEN <<UserVal(c, 0)>>
                 ELSE [k \in 1..Len(args[1].val) |-> UserVal(c, args[1].val[k])]
        scaled == IF args = <<>> THEN <<0>>
                  ELSE [k \in 1..Len(args[1].val) |-> c * args[1].val[k]]
        cot == IF args = <<>> THEN <<>> ELSE args[Len(args)].val
    IN CASE kind = "Z" -> ZeroHandle
         [] kind = "G" -> Handle(110 + c, 0, "f32", Backend, "unevaluated",
                                 [k \in 1..Len(cot) |-> Coefficient(c) * cot[k]])
         [] kind = "N" -> Handle(110 + c, 0, "f32", Backend, "literal",
                                 [k \in 1..Len(lanes) |-> 0])
         [] kind = "M" -> Handle(45 + c, 15 + c, "f32", Backend, "unevaluated",
                                 scaled)
         [] kind = "S" -> Handle(20, 0, "f32", Backend, "literal", <<7>>)
         [] kind = "L" -> Handle(30 + c, 0, "f32", Backend, "literal",
                                 <<UserVal(c, 0)>>)
         [] kind = "V" -> Handle(40 + c, 0, "f32", Backend, "unevaluated", lanes)
         [] kind = "D" -> Handle(50 + c, 10 + c, "f32", Backend, "unevaluated",
                                 lanes)
         [] kind = "T" -> Handle(60 + c, 0, "u32", Backend, "literal",
                                 <<UserVal(c, 0)>>)
         [] kind = "B" -> Handle(70 + c, 0, "f32", OtherBackend, "literal",
                                 <<UserVal(c, 0)>>)
         [] kind = "W" -> Handle(80 + c, 0, "f32", Backend, "literal",
                                 [k \in 1..Width |-> UserVal(c, 0)])

UserRv(u, c, args) == [j \in 1..Len(u) |-> UserHandle(u[j], c, j, args)]

Raises(u) == u = <<"raise">>

\* One entry of the user_fn log: the instance pointer, the self value, the
\* top of the mask stack and the number of open recording scopes during the
\* invocation, and what it did.
UserCall(s, ptr, u) ==
    [ptr |-> ptr, ret |-> u,
     self |-> s.stk.self.value, self_index |-> s.stk.self.index,
     mask |-> IF s.stk.mask = <<>> THEN "none" ELSE Last(s.stk.mask),
     scopes |-> Len(s.stk.rec),
     strategy |-> s.strategy]

\* ------------------------------------------------------- ad_call_check_rv

IsZero(h) == h.ir = 0 /\ h.ad = 0

Min(S) == CHOOSE x \in S : \A y \in S : x <= y

\* The checks every strategy runs on the values rv2 one callable returned:
\* the failure raised ("none" when there is none) and rv as it is left.
ad_call_check_rv(sz_, rv_, rv2_) ==
    IF Len(rv_) # Len(rv2_)
    THEN IF rv_ # <<>>
         THEN [err |-> "ReturnArityMismatch", rv |-> rv_]
         ELSE LET empty == {k \in 1..Len(rv2_) : IsZero(rv2_[k])}
                  upto  == IF empty = {} THEN Len(rv2_) ELSE Min(empty) - 1
              IN [err |-> IF empty = {} THEN "none" ELSE "EmptyReturn",
                  rv  |-> [k \in 1..Len(rv2_) |->
                              IF k <= upto
                              THEN jit_var_literal_zero(rv2_[k].ty, sz_)
                              ELSE ZeroHandle]]
    ELSE LET bad(k) == IsZero(rv2_[k]) \/ rv2_[k].be # Backend
                       \/ rv_[k].ty # rv2_[k].ty
             failing == {k \in 1..Len(rv_) : bad(k)}
             k0 == Min(failing)
         IN [err |-> IF failing = {} THEN "none"
                     ELSE IF IsZero(rv2_[k0]) THEN "EmptyReturn"
                     ELSE IF rv2_[k0].be # Backend THEN "ReturnBackendMismatch"
                     ELSE "ReturnTypeMismatch",
             rv |-> rv_]

\* The references of a vector of freshly made variables: each slot owns one
\* reference on its IR variable (none in a slot left empty), and one on its
\* AD node when it has one.
FreshRefs(rv_) ==
    [k \in 1..Len(rv_) |-> [jit |-> IF rv_[k].ir # 0 THEN 1 ELSE 0,
                            ad  |-> IF rv_[k].ad # 0 THEN 1 ELSE 0]]

\* rv's references after ad_call_check_rv: those of the zero literals when
\* it has resized rv, else as they were.
RefsAfterCheck(refs, rv_) ==
    IF Len(refs) # Len(rv_) THEN FreshRefs(rv_) ELSE refs

\* ------------------------------------------------------ size unification

\* The size loop without the exemption of a size_2 of 1 (no broadcast of a
\* later scalar input).
SizeStep_NoBroadcast(u, size_2) ==
    IF ~u.ok THEN u
    ELSE IF u.size = 1 THEN [ok |-> TRUE, size |-> size_2]
    ELSE IF u.size # size_2 THEN [ok |-> FALSE, size |-> u.size]
    ELSE u

\* One round of the loop of ad_call that folds the size of the next input
\* into the running size.
SizeStep(u, size_2) ==
    IF ~u.ok THEN u
    ELSE IF u.size = 1 THEN [ok |-> TRUE, size |-> size_2]
    ELSE IF u.size # size_2 /\ size_2 # 1 THEN [ok |-> FALSE, size |-> u.size]
    ELSE u

RECURSIVE SizeFold(_, _)
SizeFold(u, sizes) ==
    IF sizes = <<>> THEN u ELSE SizeFold(SizeStep(u, Head(sizes)), Tail(sizes))

\* The sizes ad_call looks at, in its order: index, mask when there is one,
\* then every argument.
InputSizes(in) ==
    <<jit_var_size(in.index)>>
    \o (IF in.mask.ir # 0 THEN <<jit_var_size(in.mask)>> ELSE <<>>)
    \o [j \in 1..Len(in.args) |-> jit_var_size(in.args[j])]

UnifySize(sizes) == SizeFold([ok |-> TRUE, size |-> Head(sizes)], Tail(sizes))

\* ------------------------------------------------------------ the state

\* The state as one record, so that each piece of ad_call is an operator from
\* the state it finds to the state it leaves.
St ==
    [pc |-> pc, err |-> err, result |-> result, inp |-> inp,
     registry |-> registry, flags |-> flags,
     callable_count |-> callable_count, size |-> size, strategy |-> strategy,
     i |-> i, rv |-> rv, rv_refs |-> rv_refs, rv_ad |-> rv_ad, rv2 |-> rv2,
     rv3 |-> rv3,
     rec |-> rec, red |-> red, stk |-> stk, rc |-> rc,
     cleanup_calls |-> cleanup_calls, user_calls |-> user_calls, op |-> op,
     emitted |-> emitted]

Apply(o) ==
    /\ pc' = o.pc /\ err' = o.err /\ result' = o.result /\ inp' = o.inp
    /\ registry' = o.registry /\ flags' = o.flags
    /\ callable_count' = o.callable_count /\ size' = o.size
    /\ strategy' = o.strategy /\ i' = o.i /\ rv' = o.rv /\ rv_ad' = o.rv_ad
    /\ rv2' = o.rv2 /\ rv3' = o.rv3 /\ rec' = o.rec /\ red' = o.red
    /\ stk' = o.stk /\ rc' = o.rc /\ cleanup_calls' = o.cleanup_calls
    /\ user_calls' = o.user_calls /\ op' = o.op /\ emitted' = o.emitted
    /\ rv_refs' = o.rv_refs
    /\ UNCHANGED <<sz, bwd, ifs, lp>>

\* jit_var_inc_ref / jit_var_dec_ref on an input handle (no-ops on the empty
\* handle).
jit_var_inc_ref(r, h) == IF h.ir = 0 THEN r ELSE [r EXCEPT ![h.ir] = @ + 1]
jit_var_dec_ref(r, h) == IF h.ir = 0 THEN r ELSE [r EXCEPT ![h.ir] = @ - 1]

\* The catch-all of ad_call: cleanup(payload) when cleanup is set, then rethrow.
CatchAll(s, e) ==
    [s EXCEPT !.pc = "raised", !.err = e,
              !.cleanup_calls = IF s.inp.cleanup THEN Append(@, "catch") ELSE @]

\* The instance pointer handed to user_fn for the 0-based callable index i.
InstancePtr(s, idx) ==
    IF s.inp.domain THEN jit_registry_ptr(s.registry, idx + 1) ELSE idx

Skipped_Never(s, idx) == FALSE

Skipped(s, idx) == s.inp.domain /\ jit_registry_ptr(s.registry, idx + 1) = 0

\* rv_ad: sized by the first callable that returns, then OR-ed slot by slot.
RvAdMerge(rv_ad_, rv2_) ==
    LET base == IF rv_ad_ = <<>> THEN [j \in 1..Len(rv2_) |-> FALSE] ELSE rv_ad_
    IN [j \in 1..Len(base) |->
           base[j] \/ (j <= Len(rv2_) /\ rv2_[j].ad # 0)]

\* --------------------------------------------------- strategy 1: getter

\* mask & (index != 0), the mask of the final gather.
GetterMask(in, k) ==
    IF Lane(in.mask, k) = 1 /\ Lane(in.index, k) # 0 THEN 1 ELSE 0

ad_call_getter_begin(s) ==
    [s EXCEPT !.pc = "getter", !.strategy = "getter", !.i = 0]

\* One round of the loop over the callables: user_fn runs inside a recording
\* scope that is always discarded.
ad_call_getter_step(s, u) ==
    IF Skipped(s, s.i) THEN [s EXCEPT !.i = @ + 1, !.rv2 = <<>>]
    ELSE
    LET ptr  == InstancePtr(s, s.i)
        in_  == scoped_record_ctor(s.stk)
        s1   == [s EXCEPT !.stk = in_, !.rv2 = <<>>]
        s2   == [s1 EXCEPT !.user_calls = Append(@, UserCall(s1, ptr, u)),
                           !.stk = scoped_record_dtor(Recorded(in_, 1), TRUE)]
        ret  == UserRv(u, s.i + 1, <<>>)
        chk  == ad_call_check_rv(s.size, s.rv, ret)
        s3   == [s2 EXCEPT !.rv2 = ret, !.rv = chk.rv,
                           !.rv_refs = RefsAfterCheck(@, chk.rv)]
        nonscalar == {j \in 1..Len(ret) : jit_var_size(ret[j]) # 1}
    IN IF Raises(u) THEN CatchAll(s2, "UserError")
       ELSE IF chk.err # "none" THEN CatchAll(s3, chk.err)
       ELSE IF nonscalar # {} THEN CatchAll(s3, "ReturnNotScalar")
       ELSE [s3 EXCEPT !.rv_ad = RvAdMerge(@, ret),
                       !.rv3 = @ \o [j \in 1..Len(ret) |-> Detached(ret[j])],
                       !.i = @ + 1]

\* Entry p (0-based) of rv3 as the final loop reads it: beyond the end of the
\* vector the read is out of bounds and yields whatever g is there.
Rv3At(s, p, g) == IF p + 1 <= Len(s.rv3) THEN s.rv3[p + 1] ELSE g

\* What an out-of-bounds read of rv3 can find: no variable, or a stale one.
GarbageHandles ==
    {ZeroHandle, Handle(99, 0, "f32", Backend, "literal", <<99>>)}

\* jit_var_gather(buf, index, mask) over the aggregation buffer whose slot c
\* holds entry c - 1 of column j.
GetterGather(s, j, g) ==
    LET n == Len(s.rv2)
        lanes == SeqMax(<<jit_var_size(s.inp.index), jit_var_size(s.inp.mask)>>)
    IN Handle(95, 0, s.rv2[j].ty, Backend, "evaluated",
              [k \in 1..lanes |->
                  IF GetterMask(s.inp, k) = 1
                  THEN Rv3At(s, (j - 1) + (Lane(s.inp.index, k) - 1) * n, g).val[1]
                  ELSE 0])

\* The slot of the final loop: all callables returned one handle (it becomes
\* the result as it is), or the handles are aggregated and gathered.
GetterSlot(s, j, g) ==
    LET n == Len(s.rv2)
        entries == [c \in 1..s.callable_count |-> Rv3At(s, (j - 1) + (c - 1) * n, g)]
        is_literal == \A c \in 1..s.callable_count :
                         s.rv3[j].ir = entries[c].ir
        invalid == \E c \in 1..s.callable_count : entries[c].st = "invalid"
    IN IF is_literal THEN [err |-> "none", h |-> s.rv3[j]]
       ELSE IF invalid THEN [err |-> "InvalidState", h |-> ZeroHandle]
       ELSE [err |-> "none", h |-> GetterGather(s, j, g)]

\* The final loop of ad_call_getter over the return slots.
ad_call_getter_finish(s, g) ==
    LET n == Len(s.rv2)
        slots == [j \in 1..n |-> GetterSlot(s, j, g)]
        failing == {j \in 1..n : slots[j].err # "none"}
        upto == IF failing = {} THEN n ELSE Min(failing)
        rv_ == [j \in 1..Len(s.rv) |-> IF j <= upto THEN slots[j].h ELSE s.rv[j]]
    IN IF failing # {}
       THEN CatchAll([s EXCEPT !.rv = rv_, !.rv_refs = FreshRefs(rv_)],
                     "InvalidState")
       ELSE [s EXCEPT !.rv = rv_, !.rv_refs = FreshRefs(rv_), !.pc = "post"]

\* ------------------------------------------------ strategy 2: recording

\* jit_var_call_input(args[i]), and ad_var_new(wrapped) for a tracked argument.
WrappedArgs(args) ==
    [j \in 1..Len(args) |->
        [args[j] EXCEPT !.ir = 10 + j, !.st = "unevaluated",
                        !.ad = IF args[j].ad # 0 THEN 30 + j ELSE 0]]

\* ad_call_record's exit with a mask guard that is never released.
ad_call_record_exit_KeepMask(s, with_self, with_mask, cleanup) ==
    LET k1 == IF with_self THEN scoped_set_self_dtor(s.stk) ELSE s.stk
    IN [s EXCEPT !.stk = scoped_record_dtor(k1, cleanup),
                 !.rc = jit_var_dec_ref(@, s.inp.mask)]

\* The locals of ad_call_record go out of scope: the set_self of the running
\* round (when there is one), the mask guard (when it is still held), the
\* recording scope, then the borrowed mask.
ad_call_record_exit(s, with_self, with_mask, cleanup) ==
    LET k1 == IF with_self THEN scoped_set_self_dtor(s.stk) ELSE s.stk
        k2 == IF with_mask THEN scoped_set_mask_dtor(k1) ELSE k1
    IN [s EXCEPT !.stk = scoped_record_dtor(k2, cleanup),
                 !.rc = jit_var_dec_ref(@, s.inp.mask)]

\* Up to the loop over the callables: borrow the mask, open the recording
\* scope, wrap the arguments, push the call mask.
ad_call_record_begin(s) ==
    LET k1 == Recorded(scoped_record_ctor(s.stk), Len(s.inp.args))
    IN [s EXCEPT !.pc = "record", !.strategy = "record", !.i = 0,
                 !.rc = jit_var_inc_ref(@, s.inp.mask),
                 !.stk = scoped_set_mask_ctor(k1, "call_mask"),
                 !.rec = [checkpoints |-> [c \in 1..s.callable_count + 1 |-> 0],
                          inst_id |-> [c \in 1..s.callable_count |-> 0],
                          callable_count_final |-> 0,
                          args2 |-> WrappedArgs(s.inp.args)]]

\* One round of the loop over the callables.
ad_call_record_step(s, u) ==
    LET s1 == [s EXCEPT !.rec.checkpoints[s.i + 1] = checkpoint_and_rewind(s.stk),
                        !.rv2 = <<>>]
    IN IF Skipped(s, s.i) THEN [s1 EXCEPT !.i = @ + 1]
       ELSE
       LET ptr == InstancePtr(s, s.i)
           s2  == [s1 EXCEPT !.rec.callable_count_final = @ + 1,
                             !.stk = scoped_set_self_ctor(@, s.i + 1, <<>>)]
           s3  == [s2 EXCEPT !.user_calls = Append(@, UserCall(s2, ptr, u)),
                             !.stk = Recorded(@, 1)]
           ret == UserRv(u, s.i + 1, s.rec.args2)
           chk == ad_call_check_rv(s.size, s.rv, ret)
           s4  == [s3 EXCEPT !.rec.inst_id[s.i + 1] = s.i + 1,
                             !.rv2 = ret, !.rv = chk.rv,
                             !.rv_refs = RefsAfterCheck(@, chk.rv)]
       IN IF Raises(u)
          THEN CatchAll(ad_call_record_exit(s3, TRUE, TRUE, TRUE), "UserError")
          ELSE IF chk.err # "none"
          THEN CatchAll(ad_call_record_exit(s4, TRUE, TRUE, TRUE), chk.err)
          ELSE [s4 EXCEPT !.rv_ad = RvAdMerge(@, ret),
                          !.rv3 = @ \o [j \in 1..Len(ret) |-> Detached(ret[j])],
                          !.stk = scoped_set_self_dtor(@),
                          !.i = @ + 1]

\* Lane k of output j of the emitted indirect call: the value recorded for
\* the callable that instance_index selects, 0 in a lane that is masked off
\* or selects no recorded callable.
CallLane(s, ids, n_inst, j, k) ==
    LET n   == Len(s.rv)
        on  == s.inp.mask.ir = 0 \/ Lane(s.inp.mask, k) = 1
        hit == {p \in 1..n_inst : ids[p] = Lane(s.inp.index, k) /\ ids[p] # 0}
    IN IF on /\ hit # {} /\ (Min(hit) - 1) * n + j <= Len(s.rv3)
       THEN Lane(s.rv3[(Min(hit) - 1) * n + j], k)
       ELSE 0

\* jit_var_call(): one fresh output per return slot.
jit_var_call(s, ids, n_inst) ==
    [j \in 1..Len(s.rv) |->
        Handle(95, 0, s.rv[j].ty, Backend, "unevaluated",
               [k \in 1..s.size |-> CallLane(s, ids, n_inst, j, k)])]

\* ad_call_record's end with the indirect call emitted at once, before the
\* terminal checkpoint is taken and the mask guard goes.
ad_call_record_finish_EmitFirst(s, emit_ok) ==
    LET s1 == [s EXCEPT !.rec.checkpoints[s.callable_count + 1] =
                            checkpoint_and_rewind(s.stk),
                        !.stk = scoped_set_mask_dtor(@)]
        call == [n_inst |-> s.rec.callable_count_final,
                 inst_id |-> s.rec.inst_id,
                 checkpoints |-> s.rec.checkpoints,
                 n_rv |-> Len(s.rv3),
                 masks |-> Len(s.stk.mask),
                 ended |-> Len(s.stk.ended),
                 calls |-> Len(s.user_calls),
                 cursor |-> s.stk.cursor]
    IN IF ~emit_ok
       THEN CatchAll(ad_call_record_exit(s1, FALSE, FALSE, TRUE), "EmitError")
       ELSE LET out == jit_var_call(s, s.rec.inst_id,
                                    s.rec.callable_count_final)
                s2 == [s1 EXCEPT !.emitted = Append(@, call),
                                 !.rv = out, !.rv_refs = FreshRefs(out)]
            IN [ad_call_record_exit(s2, FALSE, FALSE, FALSE) EXCEPT !.pc = "post"]

\* After the loop: the terminal checkpoint, the mask guard goes, the indirect
\* call is emitted (which may raise), rv is replaced, the scope is disarmed.
ad_call_record_finish(s, emit_ok) ==
    LET s1 == [s EXCEPT !.rec.checkpoints[s.callable_count + 1] =
                            checkpoint_and_rewind(s.stk),
                        !.stk = scoped_set_mask_dtor(@)]
        call == [n_inst |-> s.rec.callable_count_final,
                 inst_id |-> s.rec.inst_id,
                 checkpoints |-> s1.rec.checkpoints,
                 n_rv |-> Len(s.rv3),
                 masks |-> Len(s1.stk.mask),
                 ended |-> Len(s1.stk.ended),
                 calls |-> Len(s1.user_calls),
                 cursor |-> s1.stk.cursor]
    IN IF ~emit_ok
       THEN CatchAll(ad_call_record_exit(s1, FALSE, FALSE, TRUE), "EmitError")
       ELSE LET out == jit_var_call(s, s.rec.inst_id,
                                    s.rec.callable_count_final)
                s2 == [s1 EXCEPT !.emitted = Append(@, call),
                                 !.rv = out, !.rv_refs = FreshRefs(out)]
            IN [ad_call_record_exit(s2, FALSE, FALSE, FALSE) EXCEPT !.pc = "post"]

\* ------------------------------------------------ strategy 3: evaluated

RECURSIVE SortedSeq(_)
SortedSeq(S) == IF S = {} THEN <<>> ELSE <<Min(S)>> \o SortedSeq(S \ {Min(S)})

\* jit_var_call_reduce(): one bucket per instance id that some lane holds, in
\* increasing id order, with the lanes that hold it.
jit_var_call_reduce(index) ==
    LET ids == SortedSeq({index.val[k] : k \in 1..Len(index.val)})
    IN [b \in 1..Len(ids) |->
           [id |-> ids[b],
            perm |-> SortedSeq({k \in 1..Len(index.val) : index.val[k] = ids[b]})]]

\* jit_var_and(index_, mask): the id of a lane that is masked off becomes 0.
MaskedIndex(index, mask) ==
    Handle(11, 0, "u32", Backend, "unevaluated",
           [k \in 1..SeqMax(<<jit_var_size(index), jit_var_size(mask)>>) |->
               IF Lane(mask, k) = 1 THEN Lane(index, k) ELSE 0])

\* ad_var_gather(args[j], index2, true, permute) for every argument.
GatheredArgs(args, perm) ==
    [j \in 1..Len(args) |->
        [args[j] EXCEPT !.ir = 10 + j, !.st = "unevaluated",
                        !.ad = IF args[j].ad # 0 THEN 30 + j ELSE 0,
                        !.val = [p \in 1..Len(perm) |-> Lane(args[j], perm[p])]]]

\* ad_var_scatter(rv[j], rv2[j], index2, true, ReduceOp::None, permute)
Scattered(target, value, perm, j) ==
    [target EXCEPT !.ir = 96, !.st = "unevaluated",
                   !.ad = IF target.ad # 0 \/ value.ad # 0 THEN 40 + j ELSE 0,
                   !.val = [k \in 1..Len(target.val) |->
                               LET at == {p \in 1..Len(perm) : perm[p] = k}
                               IN IF at = {} THEN target.val[k]
                                  ELSE Lane(value, Min(at))]]

\* ad_call_reduce's exit with a mask guard that is never released.
ad_call_reduce_exit_KeepMask(s, with_self, with_mask) ==
    LET k1 == IF with_self THEN scoped_set_self_dtor(s.stk) ELSE s.stk
    IN [s EXCEPT !.stk = k1,
                 !.rc = IF s.red.borrowed THEN jit_var_dec_ref(@, s.inp.index)
                        ELSE @]

\* The locals of ad_call_reduce go out of scope: set_self and the mask guard
\* of the running round (when held), then the index variable.
ad_call_reduce_exit(s, with_self, with_mask) ==
    LET k1 == IF with_self THEN scoped_set_self_dtor(s.stk) ELSE s.stk
        k2 == IF with_mask THEN scoped_set_mask_dtor(k1) ELSE k1
    IN [s EXCEPT !.stk = k2,
                 !.rc = IF s.red.borrowed THEN jit_var_dec_ref(@, s.inp.index)
                        ELSE @]

\* Up to the loop over the buckets.
ad_call_reduce_begin(s) ==
    LET masked == s.inp.mask.ir # 0
        index  == IF masked THEN MaskedIndex(s.inp.index, s.inp.mask)
                  ELSE s.inp.index
    IN [s EXCEPT !.pc = "reduce", !.strategy = "reduce", !.i = 0,
                 !.rc = IF masked THEN @ ELSE jit_var_inc_ref(@, s.inp.index),
                 !.red = [index |-> index, borrowed |-> ~masked,
                          buckets |-> jit_var_call_reduce(index),
                          last_size |-> 0, evals |-> 0, eval_calls |-> <<>>]]

\* if (last_size == wavefront_size) jit_eval();
SameWavefront_Never(last_size, wavefront_size) == FALSE

SameWavefront(last_size, wavefront_size) == last_size = wavefront_size

\* One round of the loop over the buckets; an evaluation that is forced is
\* logged with the number of user_fn invocations made before it.
ad_call_reduce_step(s, u) ==
    LET b == s.red.buckets[s.i + 1]
        wavefront_size == Len(b.perm)
        same == SameWavefront(s.red.last_size, wavefront_size)
        s1 == [s EXCEPT !.red.eval_calls = IF same
                                           THEN Append(@, Len(s.user_calls))
                                           ELSE @,
                        !.red.evals = IF same
                                      THEN @ + 1 ELSE @,
                        !.red.last_size = wavefront_size,
                        !.stk = scoped_set_mask_ctor(@, "default"),
                        !.rv2 = <<>>]
        args2 == GatheredArgs(s.inp.args, b.perm)
        ptr == IF s.inp.domain THEN jit_registry_ptr(s.registry, b.id)
               ELSE b.id - 1
        instance_id == [p \in 1..Len(b.perm) |-> Lane(s.red.index, b.perm[p])]
        s2 == [s1 EXCEPT !.stk = scoped_set_self_ctor(@, s.i + 1, instance_id)]
        s3 == [s2 EXCEPT !.user_calls = Append(@, UserCall(s2, ptr, u))]
        ret == UserRv(u, b.id, args2)
        chk == ad_call_check_rv(s.size, s.rv, ret)
        s4 == [s3 EXCEPT !.rv2 = ret, !.rv = chk.rv,
                         !.rv_refs = RefsAfterCheck(@, chk.rv)]
    IN IF b.id = 0 THEN [s EXCEPT !.i = @ + 1]
       ELSE IF s.inp.domain /\ ptr = 0
       THEN CatchAll(ad_call_reduce_exit(s1, FALSE, TRUE), "RegistryMiss")
       ELSE IF Raises(u)
       THEN CatchAll(ad_call_reduce_exit(s3, TRUE, TRUE), "UserError")
       ELSE IF chk.err # "none"
       THEN CatchAll(ad_call_reduce_exit(s4, TRUE, TRUE), chk.err)
       ELSE [s4 EXCEPT !.rv = [j \in 1..Len(ret) |->
                                  Scattered(chk.rv[j], ret[j], b.perm, j)],
                       !.rv_refs = FreshRefs([j \in 1..Len(ret) |->
                                  Scattered(chk.rv[j], ret[j], b.perm, j)]),
                       !.stk = scoped_set_mask_dtor(scoped_set_self_dtor(@)),
                       !.i = @ + 1]

\* After the loop: rv is scheduled and the index variable goes.
ad_call_reduce_finish(s) ==
    [ad_call_reduce_exit(s, FALSE, FALSE) EXCEPT !.pc = "post"]

\* ------------------------------------------------------------- the CallOp

\* CallOp::CallOp: it keeps m_index, m_mask and the IR half of every argument.
CallOp_ctor(s) ==
    LET r1 == jit_var_inc_ref(jit_var_inc_ref(s.rc, s.inp.index), s.inp.mask)
        held == [j \in 1..Len(s.inp.args) |-> s.inp.args[j]]
    IN [s EXCEPT !.op = [state |-> "local", deleter |-> s.inp.cleanup,
                         input_offsets |-> <<>>, output_offsets |-> <<>>],
                 !.rc = [h \in DOMAIN r1 |->
                            r1[h] + Cardinality({j \in 1..Len(held) :
                                                   held[j].ir = h})]]

\* A disable_deleter that leaves the deleter armed.
disable_deleter_Armed(o) == o

\* CallOp::add_input for every argument, in order: the position of an
\* argument with an AD part is recorded.
add_input(o, args) ==
    [o EXCEPT !.input_offsets =
        SortedSeq({j \in 1..Len(args) : args[j].ad # 0})]

\* CallOp::add_output for every promoted return value, in order.
add_output(o, rv_, rv_ad_) ==
    [o EXCEPT !.output_offsets =
        SortedSeq({j \in 1..Len(rv_) : j <= Len(rv_ad_) /\ rv_ad_[j]
                                       /\ rv_[j].ad # 0})]

\* CallOp::disable_deleter
disable_deleter(o) == [o EXCEPT !.deleter = FALSE]

\* m_rv goes: the reference add_output borrowed on the AD node of every
\* registered output is given back.
ReleasedOutputs(refs, offsets) ==
    [j \in 1..Len(refs) |->
        IF \E p \in 1..Len(offsets) : offsets[p] = j
        THEN [refs[j] EXCEPT !.ad = @ - 1] ELSE refs[j]]

\* A CallOp destructor that keeps its reference on the mask.
CallOp_dtor_KeepMask(s) ==
    LET r1 == jit_var_dec_ref(s.rc, s.inp.index)
    IN [s EXCEPT !.op.state = IF @ = "attached" THEN "released" ELSE "dropped",
                 !.rc = [h \in DOMAIN r1 |->
                            r1[h] - Cardinality({j \in 1..Len(s.inp.args) :
                                                   s.inp.args[j].ir = h})],
                 !.rv_refs = ReleasedOutputs(@, s.op.output_offsets),
                 !.cleanup_calls = IF s.op.deleter THEN Append(@, "op") ELSE @]

\* CallOp::~CallOp (and the destructors of its members): the references go,
\* and cleanup(payload) runs when the deleter is still set.
CallOp_dtor(s) ==
    LET r1 == jit_var_dec_ref(jit_var_dec_ref(s.rc, s.inp.index), s.inp.mask)
    IN [s EXCEPT !.op.state = IF @ = "attached" THEN "released" ELSE "dropped",
                 !.rc = [h \in DOMAIN r1 |->
                            r1[h] - Cardinality({j \in 1..Len(s.inp.args) :
                                                   s.inp.args[j].ir = h})],
                 !.rv_refs = ReleasedOutputs(@, s.op.output_offsets),
                 !.cleanup_calls = IF s.op.deleter THEN Append(@, "op") ELSE @]

\* ------------------------------------------ ad_call after the strategy

\* An 'ad' that the evaluated branch leaves as the caller passed it.
LocalAd_Kept(s) == s.inp.ad

\* ad_call's 'ad' after the strategy: the evaluated branch has switched it
\* off (derivatives are already tracked).
LocalAd(s) == s.inp.ad /\ s.strategy # "reduce"

NeedsAd(s) ==
    \/ \E j \in 1..Len(s.inp.args) : s.inp.args[j].ad # 0
    \/ \E j \in 1..Len(s.rv_ad) : s.rv_ad[j]

\* ad_var_new(rv[i]) for every differentiable output.
Promoted(s) ==
    [j \in 1..Len(s.rv) |->
        IF j <= Len(s.rv_ad) /\ s.rv_ad[j] THEN [s.rv[j] EXCEPT !.ad = 20 + j]
        ELSE s.rv[j]]

\* A detach that forgets the jit_var_inc_ref on the IR variable.
DetachedRefs_NoIncRef(refs, rv_) ==
    [j \in 1..Len(rv_) |->
        IF rv_[j].ad # 0
        THEN [jit |-> refs[j].jit - 1, ad |-> refs[j].ad - 1]
        ELSE refs[j]]

\* The references after the promotion of the differentiable outputs:
\* ad_var_new takes a reference on the IR variable and makes an AD node that
\* the slot owns, jit_var_dec_ref gives up the slot's former reference, and
\* add_output borrows the AD node.
PromotedRefs(s) ==
    [j \in 1..Len(s.rv) |->
        IF j <= Len(s.rv_ad) /\ s.rv_ad[j]
        THEN [jit |-> s.rv_refs[j].jit + 1 - 1, ad |-> 2]
        ELSE s.rv_refs[j]]

\* The references after the outputs are detached again: for every slot with
\* an AD part, jit_var_inc_ref on the IR variable, then ad_var_dec_ref on the
\* combined index (one reference less on the AD node and on the IR variable).
DetachedRefs(refs, rv_) ==
    [j \in 1..Len(rv_) |->
        IF rv_[j].ad # 0
        THEN [jit |-> refs[j].jit + 1 - 1, ad |-> refs[j].ad - 1]
        ELSE refs[j]]

\* How the AD engine answers: ad_custom_op keeps the op ("attach") or does
\* not need it ("not_needed"), or ad_var_new / ad_custom_op raises.
PostOutcomes(s) ==
    IF LocalAd(s) /\ NeedsAd(s)
    THEN {"attach", "not_needed", "raise_custom"}
         \cup (IF \E j \in 1..Len(s.rv_ad) : s.rv_ad[j] THEN {"raise_new"} ELSE {})
    ELSE {"none"}

\* The AD wrapping and the return of ad_call.
ad_call_post(s, o) ==
    IF ~(LocalAd(s) /\ NeedsAd(s))
    THEN [s EXCEPT !.pc = "returned", !.result = "true"]
    ELSE
    LET s0 == CallOp_ctor(s)
        s1 == [s0 EXCEPT !.op = add_input(@, s.inp.args)]
        s2 == [s1 EXCEPT !.rv = Promoted(s), !.rv_refs = PromotedRefs(s),
                         !.op = add_output(@, Promoted(s), s.rv_ad)]
    IN CASE o = "raise_new" -> CatchAll(CallOp_dtor(s1), "ADError")
         [] o = "raise_custom" -> CatchAll(CallOp_dtor(s2), "ADError")
         [] o = "attach" ->
              [s2 EXCEPT !.op.state = "attached", !.pc = "returned",
                         !.result = "false"]
         [] OTHER ->
              [CallOp_dtor([s2 EXCEPT !.op = disable_deleter(@),
                                      !.rv_refs = DetachedRefs(@, s2.rv)])
                 EXCEPT !.rv = [j \in 1..Len(s.rv) |-> Detached(s2.rv[j])],
                        !.pc = "returned", !.result = "true"]

\* ------------------------------------------------- the degenerate case

\* user_fn runs once under an all-false mask with a null instance pointer;
\* every handle it returned is replaced by a zero literal.
ad_call_degenerate(s, u) ==
    LET s1  == [s EXCEPT !.user_calls = Append(@, UserCall(s, 0, u))]
        ret == s.rv \o UserRv(u, 0, s.inp.args)
    IN IF Raises(u)
       THEN CatchAll([s1 EXCEPT !.stk = scoped_set_mask_dtor(@)], "UserError")
       ELSE [s1 EXCEPT !.rv = [j \in 1..Len(ret) |->
                                  IF IsZero(ret[j]) THEN ret[j]
                                  ELSE jit_var_literal_zero(ret[j].ty, s.size)],
                       !.rv_refs = [j \in 1..Len(ret) |->
                                  [jit |-> IF IsZero(ret[j]) THEN 0 ELSE 1,
                                   ad |-> 0]],
                       !.rv2 = ret,
                       !.stk = scoped_set_mask_dtor(@),
                       !.pc = "returned", !.result = "true"]

\* ------------------------------------------------------ entry of ad_call

\* A selection in which the SymbolicCalls flag wins over is_getter.
SelectStrategy_FlagFirst(is_getter, fl) ==
    IF fl.record THEN "record"
    ELSE IF is_getter THEN "getter"
    ELSE IF fl.symbolic THEN "SymbolicModeRequired"
    ELSE "reduce"

\* An entry whose mode check only refuses a domain together with a count.
ad_call_entry_BothOnly(s, in) ==
    LET s0 == [s EXCEPT !.inp = in]
        cc == IF in.domain THEN jit_registry_id_bound(s.registry)
              ELSE in.callable_count
        u  == UnifySize(InputSizes(in))
        s1 == [s0 EXCEPT !.callable_count = cc, !.size = u.size]
    IN IF in.callable_count # 0 /\ in.domain THEN CatchAll(s0, "ModeConflict")
       ELSE IF ~u.ok
       THEN CatchAll([s0 EXCEPT !.callable_count = cc], "ShapeMismatch")
       ELSE IF in.index.ir = 0 \/ u.size = 0
               \/ jit_var_is_zero_literal(in.mask) \/ cc = 0
       THEN [s1 EXCEPT !.pc = "degenerate", !.strategy = "degenerate",
                       !.stk = scoped_set_mask_ctor(@, "false")]
       ELSE IF in.is_getter THEN ad_call_getter_begin(s1)
       ELSE IF s.flags.record THEN ad_call_record_begin(s1)
       ELSE IF s.flags.symbolic THEN CatchAll(s1, "SymbolicModeRequired")
       ELSE ad_call_reduce_begin(s1)

\* The strategy a non-degenerate call runs, or the failure it raises.
SelectStrategy(is_getter, fl) ==
    IF is_getter THEN "getter"
    ELSE IF fl.record THEN "record"
    ELSE IF fl.symbolic THEN "SymbolicModeRequired"
    ELSE "reduce"

\* The test for the degenerate case.
IsDegenerate(in, cc, sz_) ==
    \/ in.index.ir = 0 \/ sz_ = 0
    \/ jit_var_is_zero_literal(in.mask) \/ cc = 0

\* From the entry of ad_call to its first user_fn invocation (or failure):
\* the mode check, the registry lookup, the size unification, the degenerate
\* case, the choice of the strategy.
ad_call_entry(s, in) ==
    LET s0 == [s EXCEPT !.inp = in]
        cc == IF in.domain THEN jit_registry_id_bound(s.registry)
              ELSE in.callable_count
        u  == UnifySize(InputSizes(in))
        s1 == [s0 EXCEPT !.callable_count = cc, !.size = u.size]
    IN IF (in.callable_count # 0) = in.domain THEN CatchAll(s0, "ModeConflict")
       ELSE IF ~u.ok
       THEN CatchAll([s0 EXCEPT !.callable_count = cc], "ShapeMismatch")
       ELSE IF IsDegenerate(in, cc, u.size)
       THEN [s1 EXCEPT !.pc = "degenerate", !.strategy = "degenerate",
                       !.stk = scoped_set_mask_ctor(@, "false")]
       ELSE LET choice == SelectStrategy(in.is_getter, s.flags)
            IN CASE choice = "getter" -> ad_call_getter_begin(s1)
                 [] choice = "record" -> ad_call_record_begin(s1)
                 [] choice = "reduce" -> ad_call_reduce_begin(s1)
                 [] OTHER -> CatchAll(s1, choice)

\* ------------------------------------------------------------------- Init

NoInput ==
    [domain |-> FALSE, callable_count |-> 0, is_getter |-> FALSE,
     index |-> ZeroHandle, mask |-> ZeroHandle, args |-> <<>>,
     cleanup |-> FALSE, ad |-> FALSE]

\* The scoped state the call finds: nothing, or (JitFlag::Symbolic) the mask,
\* self and recording scope of an enclosing symbolic region.
EntryStack(symbolic) ==
    [mask   |-> IF symbolic THEN <<"entry">> ELSE <<>>,
     self   |-> [value |-> IF symbolic THEN 9 ELSE 0, index |-> <<>>],
     saved  |-> <<>>,
     rec    |-> IF symbolic THEN <<[checkpoint |-> 0, scope |-> 1]>> ELSE <<>>,
     scope  |-> IF symbolic THEN 1 ELSE 0,
     cursor |-> IF symbolic THEN 3 ELSE 0,
     ended  |-> <<>>,
     frames |-> <<>>,
     lifo   |-> TRUE]

BwdIdle ==
    [state |-> "idle", mode |-> "none", err |-> "none", flags |-> <<>>,
     strategy |-> "none", grads |-> <<>>, calls |-> <<>>,
     nested |-> "none", cleanup_calls |-> <<>>]

\* ------------------------------------------------------ CallOp::backward

\* The arguments of the call backward() makes: m_args, then the gradient of
\* every registered output (the cotangent, 1 in every lane).
BackwardArgs ==
    [j \in 1..Len(inp.args) |-> Detached(inp.args[j])]
    \o [p \in 1..Len(op.output_offsets) |->
          Handle(120 + p, 0, "f32", Backend, "evaluated",
                 [k \in 1..jit_var_size(rv[op.output_offsets[p]]) |-> 1])]

\* A call made by backward() that hands over the cleanup of the payload.
BackwardInput_WithCleanup ==
    [domain |-> inp.domain,
     callable_count |-> IF inp.domain THEN 0 ELSE callable_count,
     is_getter |-> FALSE, index |-> inp.index, mask |-> inp.mask,
     args |-> BackwardArgs, cleanup |-> TRUE, ad |-> FALSE]

\* ad_call(m_backend, m_domain, m_callable_count, name, false, m_index,
\*         m_mask, args, rv, this, &backward_cb, nullptr, false);
\* m_callable_count is 0 when there is a domain.
BackwardInput ==
    [domain |-> inp.domain,
     callable_count |-> IF inp.domain THEN 0 ELSE callable_count,
     is_getter |-> FALSE, index |-> inp.index, mask |-> inp.mask,
     args |-> BackwardArgs, cleanup |-> FALSE, ad |-> FALSE]

\* The state the call made by backward() starts from, under the flags fl of
\* the moment.
BackwardEntry(fl) ==
    [St EXCEPT !.pc = "idle", !.err = "none", !.result = "none",
               !.flags = fl, !.strategy = "none", !.i = 0,
               !.rv = <<>>, !.rv_refs = <<>>, !.rv_ad = <<>>, !.rv2 = <<>>,
               !.rv3 = <<>>, !.stk = EntryStack(fl.symbolic),
               !.cleanup_calls = <<>>, !.user_calls = <<>>, !.emitted = <<>>,
               !.rec = [checkpoints |-> <<>>, inst_id |-> <<>>,
                        callable_count_final |-> 0, args2 |-> <<>>],
               !.red = [index |-> ZeroHandle, borrowed |-> FALSE,
                        buckets |-> <<>>, last_size |-> 0, evals |-> 0,
                        eval_calls |-> <<>>],
               !.op = [state |-> "none", deleter |-> FALSE,
                       input_offsets |-> <<>>, output_offsets |-> <<>>]]

\* A call made by the CallOp, run to its end; u is what the callback hands
\* back for every callable.
RECURSIVE RunCallOpCall(_, _, _)
RunCallOpCall(s, u, emit_ok) ==
    CASE s.pc = "degenerate" ->
           RunCallOpCall(ad_call_degenerate(s, u), u, emit_ok)
      [] s.pc = "record" /\ s.i < s.callable_count ->
           RunCallOpCall(ad_call_record_step(s, u), u, emit_ok)
      [] s.pc = "record" /\ s.i = s.callable_count ->
           RunCallOpCall(ad_call_record_finish(s, emit_ok), u, emit_ok)
      [] s.pc = "reduce" /\ s.i < Len(s.red.buckets) ->
           RunCallOpCall(ad_call_reduce_step(s, u), u, emit_ok)
      [] s.pc = "reduce" /\ s.i = Len(s.red.buckets) ->
           RunCallOpCall(ad_call_reduce_finish(s), u, emit_ok)
      [] s.pc = "post" -> RunCallOpCall(ad_call_post(s, "none"), u, emit_ok)
      [] OTHER -> s

\* backward_cb: after m_func and the traversal, one ad_grad per entry of
\* m_input_offsets is pushed to rv.
backward_cb == [p \in 1..Len(op.input_offsets) |-> "G"]

\* forward_cb: after m_func and the traversal, one ad_grad per entry of
\* m_output_offsets is pushed to rv; without a registered input no tangent
\* came in and the gradient is the zero literal.
forward_cb ==
    [p \in 1..Len(op.output_offsets) |->
        IF op.input_offsets = <<>> THEN "N" ELSE "G"]

\* The call made by backward(), run to its end.
RunBackwardCall(s, emit_ok) == RunCallOpCall(s, backward_cb, emit_ok)

\* The call made by forward(), run to its end.
RunForwardCall(s, emit_ok) == RunCallOpCall(s, forward_cb, emit_ok)

\* What a pass of the CallOp leaves behind, from the state n its call ended
\* in: the outcome of the size assertion over the expected number of values,
\* the values, every callback invocation with the number of values it pushed
\* and the isolation boundaries around its traversal, the CallOp the call
\* constructed (none) and the cleanup invocations it made.
CallOpPass(n, mode, expected, fl, boundaries) ==
    LET ok == n.pc = "returned" /\ Len(n.rv) = expected
    IN [state |-> IF n.pc = "raised" THEN "raised"
                  ELSE IF ok THEN "done" ELSE "assert",
        mode |-> mode,
        err |-> n.err, flags |-> fl, strategy |-> n.strategy,
        grads |-> IF ok THEN [p \in 1..Len(n.rv) |->
                                 [k \in 1..n.size |-> Lane(n.rv[p], k)]]
                  ELSE <<>>,
        calls |-> [c \in 1..Len(n.user_calls) |->
                     [ptr |-> n.user_calls[c].ptr,
                      n_rv |-> Len(n.user_calls[c].ret),
                      isolation |-> boundaries
                                    + IF n.strategy = "record" THEN 1 ELSE 0]],
        nested |-> n.op.state,
        cleanup_calls |-> n.cleanup_calls]

\* CallOp::backward: inside an isolation boundary, the call is made, its
\* result must have one value per registered input (ad_assert), and value i
\* is accumulated into the gradient of input i. Every backward_cb invocation
\* is logged with the isolation boundaries around its ad_traverse: the one of
\* backward(), and the one of ad_call around the recording strategy.
CallOp_backward(fl, emit_ok) ==
    CallOpPass(RunBackwardCall(ad_call_entry(BackwardEntry(fl), BackwardInput),
                               emit_ok),
               "backward", Len(op.input_offsets), fl, 1)

\* The arguments of the call forward() makes: m_args, then the gradient of
\* every registered input (the tangent, 1 in every lane).
ForwardArgs ==
    [j \in 1..Len(inp.args) |-> Detached(inp.args[j])]
    \o [p \in 1..Len(op.input_offsets) |->
          Handle(130 + p, 0, "f32", Backend, "evaluated",
                 [k \in 1..jit_var_size(inp.args[op.input_offsets[p]]) |-> 1])]

\* ad_call(m_backend, m_domain, m_callable_count, name, false, m_index,
\*         m_mask, args, rv, this, &forward_cb, nullptr, false);
ForwardInput ==
    [domain |-> inp.domain,
     callable_count |-> IF inp.domain THEN 0 ELSE callable_count,
     is_getter |-> FALSE, index |-> inp.index, mask |-> inp.mask,
     args |-> ForwardArgs, cleanup |-> FALSE, ad |-> FALSE]

\* CallOp::forward: the call is made, its result must have one value per
\* registered output (ad_assert), and value i is accumulated into the
\* gradient of output i. forward() opens no isolation boundary of its own.
CallOp_forward(fl, emit_ok) ==
    CallOpPass(RunForwardCall(ad_call_entry(BackwardEntry(fl), ForwardInput),
                              emit_ok),
               "forward", Len(op.output_offsets), fl, 0)

\* No if_stmt call.
IfIdle ==
    [pc |-> "idle", err |-> "none", program |-> "none", mode |-> "none",
     cond |-> [kind |-> "none", val |-> <<>>], args |-> <<>>,
     rv_labels |-> <<>>,
     is |-> [state |-> "none", rv_valid |-> FALSE, rv |-> <<>>, deletes |-> 0],
     drv |-> [t |-> <<>>, f |-> <<>>], calls |-> <<>>, checked |-> <<>>,
     result |-> <<>>, cur |-> <<>>, seen |-> <<>>, copy_map |-> <<>>]

\* No LoopState.
LsNone ==
    [heap |-> <<>>, state |-> <<>>, state_labels |-> <<>>, entries |-> <<>>,
     stack |-> <<>>, first_time |-> TRUE, entry_pos |-> 0, indices_pos |-> 0,
     loop_size |-> 1, indices |-> <<>>, err |-> "none", visits |-> 0,
     paths |-> <<>>]

\* What cleanup_impl returns for an object on the stack: None.
CleanNone == [kind |-> "none", ty |-> "none", items |-> <<>>]

\* No while_loop call.
LpIdle ==
    [pc |-> "idle", err |-> "none", method |-> "none",
     prog |-> [body |-> "none", n |-> 0, bad_at |-> 0, bad_kind |-> "none",
               cond_kind |-> "none"],
     state0 |-> <<>>, state |-> [kind |-> "tuple", items |-> <<>>],
     cond_val |-> [kind |-> "none", val |-> FALSE],
     n_cond |-> 0, n_body |-> 0, payload |-> "none", result |-> <<>>,
     ls |-> LsNone, phase |-> 0, passes |-> <<>>,
     cl |-> [frames |-> <<>>, steps |-> 0, result |-> CleanNone]]

SzIdle == [sizes |-> <<>>, pos |-> 0, u |-> [ok |-> TRUE, size |-> 0]]

InitCall ==
    /\ pc = "idle" /\ err = "none" /\ result = "none" /\ inp = NoInput
    /\ registry \in Registries
    /\ flags \in [record : BOOLEAN, symbolic : BOOLEAN]
    /\ callable_count = 0 /\ size = 0 /\ strategy = "none" /\ i = 0
    /\ rv = <<>> /\ rv_refs = <<>> /\ rv_ad = <<>> /\ rv2 = <<>> /\ rv3 = <<>>
    /\ rec = [checkpoints |-> <<>>, inst_id |-> <<>>,
              callable_count_final |-> 0, args2 |-> <<>>]
    /\ red = [index |-> ZeroHandle, borrowed |-> FALSE, buckets |-> <<>>,
              last_size |-> 0, evals |-> 0, eval_calls |-> <<>>]
    /\ stk = EntryStack(flags.symbolic)
    /\ rc = [h \in 1..3 |-> 1]
    /\ cleanup_calls = <<>> /\ user_calls = <<>>
    /\ op = [state |-> "none", deleter |-> FALSE,
             input_offsets |-> <<>>, output_offsets |-> <<>>]
    /\ emitted = <<>>
    /\ bwd = BwdIdle

Init == InitCall /\ sz = SzIdle /\ ifs = IfIdle /\ lp = LpIdle

\* ---------------------------------------------------------------- actions

\* The callable count a call would work with.
CountOf(in) == IF in.domain THEN registry.bound ELSE in.callable_count

\* Plain data: every lane k selects callable k (the last one beyond the
\* count), or there is no index; no per-lane mask; no argument, a tracked
\* one of Width lanes, or one lane too many.
PlainData(in) ==
    /\ in.index \in {ZeroHandle,
                     IndexHandle([k \in 1..Width |->
                         IF k <= CountOf(in) THEN k ELSE CountOf(in)])}
    /\ in.mask.st # "evaluated"
    /\ in.args \in {<<>>, <<ArgHandle(1, TRUE, Width)>>,
                    <<ArgHandle(1, FALSE, Width + 1)>>}

\* Plain control: a cleanup, no AD (no wrapping, no tracked argument), no
\* enclosing symbolic region, the flag off for a getter, and every callable
\* live but, with a domain, the first one.
PlainControl(in) ==
    /\ in.cleanup /\ ~in.ad /\ ~flags.symbolic
    /\ \A j \in 1..Len(in.args) : in.args[j].ad = 0
    /\ in.is_getter => ~flags.record
    /\ CountOf(in) = MaxCallables
    /\ in.domain => in.callable_count = 0 /\ registry.live = 2..MaxCallables

\* AD data: a recording call without domain, mask and cleanup whose one
\* argument is AD-tracked, with any instance_index.
AdData(in) ==
    /\ in.ad /\ ~in.is_getter /\ flags.record /\ ~flags.symbolic
    /\ ~in.domain /\ ~in.cleanup /\ in.mask.ir = 0
    /\ in.args = <<ArgHandle(1, TRUE, Width)>>

\* The calls that are enumerated: every control combination on plain data,
\* every data combination under plain control, and the AD data. The instance ids of the lanes
\* lie within the callable count, a call without a domain leaves the registry
\* alone, a getter call passes a mask, and an argument of Width + 1 lanes
\* comes with an index of Width lanes.
Scenario(in) ==
    /\ in.domain => in.callable_count <= 1
    /\ ~in.domain => registry.bound = 0
    /\ \A k \in 1..Len(in.index.val) : in.index.val[k] <= CountOf(in)
    /\ in.is_getter => in.mask.ir # 0
    /\ \A j \in 1..Len(in.args) :
          jit_var_size(in.args[j]) > Width => jit_var_size(in.index) = Width
    /\ PlainData(in) \/ PlainControl(in) \/ AdData(in)

\* ad_call is entered.
Call ==
    /\ pc = "idle"
    /\ \E in \in CallInputs : Scenario(in) /\ Apply(ad_call_entry(St, in))

\* The degenerate case's single user_fn invocation, to the return.
DegenerateCall ==
    /\ pc = "degenerate"
    /\ \E u \in UserOutcomes : Apply(ad_call_degenerate(St, u))

GetterStep ==
    /\ pc = "getter" /\ i < callable_count
    /\ \E u \in UserOutcomes : Apply(ad_call_getter_step(St, u))

GetterFinish ==
    /\ pc = "getter" /\ i = callable_count
    /\ \E g \in GarbageHandles : Apply(ad_call_getter_finish(St, g))

RecordStep ==
    /\ pc = "record" /\ i < callable_count
    /\ \E u \in UserOutcomes : Apply(ad_call_record_step(St, u))

RecordFinish ==
    /\ pc = "record" /\ i = callable_count
    /\ \E emit_ok \in BOOLEAN : Apply(ad_call_record_finish(St, emit_ok))

ReduceStep ==
    /\ pc = "reduce" /\ i < Len(red.buckets)
    /\ \E u \in UserOutcomes : Apply(ad_call_reduce_step(St, u))

ReduceFinish ==
    /\ pc = "reduce" /\ i = Len(red.buckets)
    /\ Apply(ad_call_reduce_finish(St))

\* The AD wrapping, to the return or the catch-all.
Post ==
    /\ pc = "post"
    /\ \E o \in PostOutcomes(St) : Apply(ad_call_post(St, o))

\* The AD graph drops the CallOp it had accepted.
DestroyCallOp ==
    /\ pc = "returned" /\ op.state = "attached"
    /\ Apply(CallOp_dtor(St))

\* The AD engine runs the forward pass of the attached CallOp, under the
\* flags the call was made with.
Forward ==
    /\ pc = "returned" /\ op.state = "attached" /\ bwd.state = "idle"
    /\ \E emit_ok \in BOOLEAN : bwd' = CallOp_forward(flags, emit_ok)
    /\ UNCHANGED <<pc, err, result, inp, registry, flags, callable_count, size,
                   strategy, i, rv, rv_refs, rv_ad, rv2, rv3, rec, red, stk,
                   rc, cleanup_calls, user_calls, op, emitted, sz, ifs, lp>>

\* The AD engine runs the backward pass of the attached CallOp, under the
\* flags of that moment.
Backward ==
    /\ pc = "returned" /\ op.state = "attached" /\ bwd.state = "idle"
    /\ \E fl \in [record : BOOLEAN, symbolic : BOOLEAN], emit_ok \in BOOLEAN :
          bwd' = CallOp_backward(fl, emit_ok)
    /\ UNCHANGED <<pc, err, result, inp, registry, flags, callable_count, size,
                   strategy, i, rv, rv_refs, rv_ad, rv2, rv3, rec, red, stk,
                   rc, cleanup_calls, user_calls, op, emitted, sz, ifs, lp>>

Next ==
    \/ Call \/ DegenerateCall
    \/ GetterStep \/ GetterFinish
    \/ RecordStep \/ RecordFinish
    \/ ReduceStep \/ ReduceFinish
    \/ Post \/ DestroyCallOp \/ Forward \/ Backward

Spec == Init /\ [][Next]_vars

\* ------------------------------------------- the size loop on its own

\* Largest number of inputs and largest input size that are enumerated.
MaxInputs == 3
MaxSize == 3

SizeLists == UNION {[1..n -> 0..MaxSize] : n \in 1..MaxInputs}

\* The loop starts from the size of the index.
InitSize ==
    /\ InitCall /\ registry.bound = 0 /\ ~flags.record /\ ~flags.symbolic
    /\ ifs = IfIdle /\ lp = LpIdle
    /\ \E l \in SizeLists :
          sz = [sizes |-> l, pos |-> 1, u |-> [ok |-> TRUE, size |-> l[1]]]

\* One round of the loop: the next input's size is folded in.
SizeRound ==
    /\ sz.pos < Len(sz.sizes)
    /\ sz' = [sz EXCEPT !.pos = @ + 1, !.u = SizeStep(@, sz.sizes[sz.pos + 1])]
    /\ UNCHANGED <<pc, err, result, inp, registry, flags, callable_count, size,
                   strategy, i, rv, rv_refs, rv_ad, rv2, rv3, rec, red, stk,
                   rc, cleanup_calls, user_calls, op, emitted, bwd, ifs, lp>>

SizeSpec == InitSize /\ [][SizeRound]_vars

\* ----------------------------------------------------------------- if_stmt

\* Lanes of the arrays, largest value an argument lane holds, and the number
\* of bits after which the unsigned type wraps in the model (uint32_t in the
\* tests).
IfWidth == 2
IfMaxVal == 2
UIntBits == 8

\* An array: its element type and its lanes (one lane is broadcast).
Arr(ty, val) == [ty |-> ty, val |-> val]

ArrLane(a, k) == IF Len(a.val) = 1 THEN a.val[1] ELSE a.val[k]

RECURSIVE TupleSize(_)
TupleSize(t) ==
    IF t = <<>> THEN 0
    ELSE LET r == TupleSize(Tail(t))
         IN IF Len(t[1].val) > r THEN Len(t[1].val) ELSE r

\* a - b in the unsigned type.
USub(a, b) == (a - b + 2^UIntBits) % (2^UIntBits)

\* The branches of the tests: -x and x (my_abs), j - i and i - j
\* (simple_cond), a branch that returns its argument twice and one that
\* returns it as an array of the unsigned type.
PyCall(fn, args) ==
    LET n == TupleSize(args)
    IN CASE fn = "neg" ->
              <<Arr(args[1].ty,
                    [k \in 1..Len(args[1].val) |-> 0 - args[1].val[k]])>>
         [] fn = "ident" -> <<args[1]>>
         [] fn = "j_minus_i" ->
              <<Arr("u32", [k \in 1..n |->
                               USub(ArrLane(args[2], k), ArrLane(args[1], k))])>>
         [] fn = "i_minus_j" ->
              <<Arr("u32", [k \in 1..n |->
                               USub(ArrLane(args[1], k), ArrLane(args[2], k))])>>
         [] fn = "twice" -> <<args[1], args[1]>>
         [] fn = "as_uint" -> <<Arr("u32", args[1].val)>>
         [] fn = "bump" ->
              <<Arr(args[1].ty,
                    [k \in 1..Len(args[1].val) |-> args[1].val[k] + 1])>>
         [] fn = "scatter" ->
              <<Arr(args[1].ty,
                    [k \in 1..Len(args[1].val) |->
                        IF k = 1 THEN 7 ELSE args[1].val[k]])>>
         [] fn = "zeros" -> <<Arr("f32", [k \in 1..IfWidth |-> 0])>>

\* A Python object that holds an array: its identity, the index of its
\* variable, whether that variable is dirty, and the array.
Obj(id, idx, dirty, arr) == [obj |-> id, idx |-> idx, dirty |-> dirty, arr |-> arr]

\* The objects of the caller's argument tuple.
CallerObjects(args) == [j \in 1..Len(args) |-> Obj(j, j, FALSE, args[j])]

Values(objs) == [j \in 1..Len(objs) |-> objs[j].arr]

\* What a branch leaves behind in the objects it was called with: "bump"
\* assigns x + 1 to its first argument in place (a new variable), "scatter"
\* scatters into it (a new variable with a pending side effect), the others
\* leave their arguments alone.
BranchEffect(fn, objs) ==
    IF fn \in {"bump", "scatter"}
    THEN [objs EXCEPT ![1] = Obj(@.obj, (IF fn = "bump" THEN 200 ELSE 300) + @.idx,
                                 fn = "scatter", PyCall(fn, Values(objs))[1])]
    ELSE objs

true_fn(program) ==
    CASE program = "my_abs" -> "neg"
      [] program = "simple_cond" -> "j_minus_i"
      [] program = "uneven" -> "ident"
      [] program = "retyped" -> "ident"
      [] program = "bumps" -> "bump"
      [] program = "scatters" -> "scatter"

false_fn(program) ==
    CASE program = "my_abs" -> "ident"
      [] program = "simple_cond" -> "i_minus_j"
      [] program = "uneven" -> "twice"
      [] program = "retyped" -> "as_uint"
      [] program \in {"bumps", "scatters"} -> "zeros"

\* The argument tuples the programs are called with.
IfArgs(program) ==
    CASE program = "my_abs" ->
            {<<Arr("f32", x)>> : x \in [1..IfWidth -> (0 - IfMaxVal)..IfMaxVal]}
      [] program = "simple_cond" ->
            {<<Arr("u32", i_), Arr("u32", <<j_>>)>> :
                i_ \in [1..IfWidth -> 0..IfMaxVal], j_ \in 0..IfMaxVal}
      [] program \in {"uneven", "retyped", "bumps", "scatters"} ->
            {<<Arr("f32", [k \in 1..IfWidth |-> k])>>}

IfPrograms ==
    {"my_abs", "simple_cond", "uneven", "retyped", "bumps", "scatters"}

\* The rv_labels the programs are called with.
IfLabels(program) ==
    CASE program = "my_abs" -> {<<>>}
      [] program = "simple_cond" -> {<<"k">>}
      [] program \in {"uneven", "retyped"} -> {<<>>, <<"r">>}
      [] program \in {"bumps", "scatters"} -> {<<>>}

\* The conditions: a Python bool, a Jit 1D boolean array, an empty one, and
\* an object that is neither.
IfConds ==
    {[kind |-> "bool", val |-> <<b>>] : b \in BOOLEAN}
    \cup {[kind |-> "array", val |-> v] : v \in [1..IfWidth -> BOOLEAN]}
    \cup {[kind |-> "empty", val |-> <<>>], [kind |-> "other", val |-> <<>>]}

IfModes == {"auto", "scalar", "symbolic", "evaluated", "unknown"}

\* The calls of a program that are enumerated.
IfInputs(p) ==
    {[IfIdle EXCEPT !.program = p, !.mode = m, !.cond = c, !.args = a,
                    !.rv_labels = l, !.cur = CallerObjects(a)] :
        m \in IfModes, c \in IfConds, a \in IfArgs(p), l \in IfLabels(p)}

\* The call fails: every exception leaves if_stmt as a RuntimeError.
IfRaise(s, e) == [s EXCEPT !.pc = "raised", !.err = e]

\* nb::callable &fn = value ? is->true_fn : is->false_fn;
BranchFn_Swapped(s, value) ==
    IF value THEN false_fn(s.program) ELSE true_fn(s.program)

BranchFn(s, value) ==
    IF value THEN true_fn(s.program) ELSE false_fn(s.program)

\* bool is_scalar = mode == "scalar"; in mode "auto" the type of the
\* condition decides.
IsScalar_ModeOnly(s) == s.mode = "scalar"

IsScalar(s) ==
    IF s.mode = "auto" THEN s.cond.kind = "bool" ELSE s.mode = "scalar"

\* if_stmt up to the call of the conditional driver: the scalar path runs
\* the selected branch on the arguments themselves; the general path checks
\* the condition and the mode and allocates the IfState.
if_stmt_entry(s) ==
    LET is_scalar == IsScalar(s)
    IN IF ~is_scalar /\ s.cond.kind = "empty" THEN IfRaise(s, "CondEmpty")
       ELSE IF ~is_scalar /\ s.cond.kind # "array" THEN IfRaise(s, "CondType")
       ELSE IF is_scalar /\ s.cond.kind # "bool" THEN IfRaise(s, "CastError")
       ELSE IF is_scalar
       THEN [s EXCEPT !.pc = "returned", !.calls = <<s.cond.val[1]>>,
                      !.seen = <<s.cur>>,
                      !.cur = BranchEffect(BranchFn(s, s.cond.val[1]), @),
                      !.result = PyCall(BranchFn(s, s.cond.val[1]), s.args)]
       ELSE IF s.mode \notin {"auto", "symbolic", "evaluated"}
       THEN IfRaise(s, "InvalidMode")
       ELSE [s EXCEPT !.pc = "driver", !.is.state = "live"]

\* copy(is->args, &is->copy_map): a tuple of new objects (those of the c-th
\* call) that hold the same variables as the originals; the copy map pairs
\* copy j with original j.
copy(objs, c) ==
    [j \in 1..Len(objs) |->
        Obj(10 * c + j, objs[j].idx, objs[j].dirty,
            Arr(objs[j].arr.ty, objs[j].arr.val))]

\* A test that propagates every changed handle.
Propagates_Changed(i1, i2, dirty) == i1 # i2

\* if (i1 != i2 && jit_var_state((uint32_t) i1) == VarState::Dirty)
Propagates(i1, i2, dirty) == i1 # i2 /\ dirty

\* The loop over the copy map, which holds the copies of every branch call
\* so far, each with the position of its original: nb::inst_replace_copy(h2,
\* h1) makes the original h2 hold what the copy h1 holds. At most one entry
\* per original passes the test with the branches of the model, so that the
\* order of the entries has no influence.
RECURSIVE propagate(_, _, _)
propagate(cur, map, n) ==
    IF n > Len(map) THEN cur
    ELSE LET h1 == map[n].copy
             j  == map[n].orig
         IN propagate(IF Propagates(h1.idx, cur[j].idx, h1.dirty)
                      THEN [cur EXCEPT ![j] = Obj(@.obj, h1.idx, h1.dirty, h1.arr)]
                      ELSE cur,
                      map, n + 1)

\* check_compatibility: same type and number of dimensions.
Compatible(a, b) == a.ty = b.ty

\* The consistency check of if_stmt_body_cb: slot by slot when the labels,
\* the stored result and the new result have the same non-zero length, on the
\* whole result otherwise.
Consistent_Labelled(labels, rv_old, rv_new) ==
    \A j \in 1..Len(labels) :
        j <= Len(rv_old) /\ j <= Len(rv_new) => Compatible(rv_old[j], rv_new[j])

\* The labels the comparison is made with.
CheckedWith(labels, rv_old, rv_new) ==
    IF Len(labels) = Len(rv_old) /\ Len(rv_old) = Len(rv_new)
       /\ Len(rv_new) > 0
    THEN labels ELSE <<"result">>

Consistent(labels, rv_old, rv_new) ==
    LET l1 == Len(labels) l2 == Len(rv_old) l3 == Len(rv_new)
    IN IF l1 = l2 /\ l2 = l3 /\ l3 > 0
       THEN \A j \in 1..l1 : Compatible(rv_old[j], rv_new[j])
       ELSE /\ l2 = l3
            /\ \A j \in 1..l2 : Compatible(rv_old[j], rv_new[j])

\* if_stmt_body_cb, followed by the driver's if_stmt_read_cb; when the
\* callback raises, the driver deletes the IfState (if_stmt_delete_cb) and
\* the exception leaves if_stmt.
if_stmt_body_cb(s0, value) ==
    LET args == copy(s0.cur, Len(s0.calls) + 1)
        out == PyCall(BranchFn(s0, value), Values(args))
        left == BranchEffect(BranchFn(s0, value), args)
        map == s0.copy_map
               \o [j \in 1..Len(left) |-> [copy |-> left[j], orig |-> j]]
        s == [s0 EXCEPT !.seen = Append(@, args), !.copy_map = map,
                        !.cur = propagate(@, map, 1)]
    IN IF s.is.rv_valid /\ ~Consistent(s.rv_labels, s.is.rv, out)
       THEN [IfRaise(s, "ReturnShapeMismatch") EXCEPT
                !.calls = Append(@, value), !.is.state = "deleted",
                !.is.deletes = @ + 1, !.copy_map = <<>>,
                !.checked = CheckedWith(s.rv_labels, s.is.rv, out)]
       ELSE [s EXCEPT !.calls = Append(@, value),
                      !.checked = IF s.is.rv_valid
                                  THEN CheckedWith(s.rv_labels, s.is.rv, out)
                                  ELSE @,
                      !.is.rv = out, !.is.rv_valid = TRUE,
                      !.drv = IF value THEN [@ EXCEPT !.t = out]
                                       ELSE [@ EXCEPT !.f = out]]

\* What the conditional driver emits: in lane k the value of the branch
\* the condition selects.
ad_cond_select(cond, t, f) ==
    [j \in 1..Len(t) |->
        Arr(t[j].ty,
            [k \in 1..Len(cond.val) |->
                IF cond.val[k] THEN ArrLane(t[j], k) ELSE ArrLane(f[j], k)])]

\* The end of the driver and of if_stmt: the driver hands its result to
\* if_stmt_write_cb and returns whether the IfState is the caller's to
\* delete (status) or is kept by an AD operation; if_stmt converts the
\* result (uncopy) and then deletes the IfState or resets its rv and clears
\* its copy map and stashed references. When uncopy raises, the exception
\* leaves if_stmt before either is done.
if_stmt_exit(s, status, uncopy_ok) ==
    LET out == ad_cond_select(s.cond, s.drv.t, s.drv.f)
        s1 == [s EXCEPT !.is.rv = out, !.is.rv_valid = TRUE,
                        !.is.state = IF status THEN "live" ELSE "retained"]
    IN IF ~uncopy_ok THEN IfRaise(s1, "UncopyError")
       ELSE [s1 EXCEPT !.pc = "returned", !.result = out, !.copy_map = <<>>,
                       !.is = IF status
                              THEN [state |-> "deleted", rv_valid |-> FALSE,
                                    rv |-> <<>>, deletes |-> s.is.deletes + 1]
                              ELSE [state |-> "retained", rv_valid |-> FALSE,
                                    rv |-> <<>>, deletes |-> s.is.deletes]]

\* if_stmt_delete_cb: delete (IfState *) p.
if_stmt_delete_cb(s) ==
    [s EXCEPT !.is.state = "deleted", !.is.deletes = @ + 1,
              !.is.rv_valid = FALSE, !.is.rv = <<>>, !.copy_map = <<>>]

CallVars == <<pc, err, result, inp, registry, flags, callable_count, size,
              strategy, i, rv, rv_refs, rv_ad, rv2, rv3, rec, red, stk, rc,
              cleanup_calls, user_calls, op, emitted, bwd, sz>>

InitIf ==
    /\ InitCall /\ registry.bound = 0 /\ ~flags.record /\ ~flags.symbolic
    /\ sz = SzIdle
    /\ \E p \in IfPrograms : ifs \in IfInputs(p)
    /\ lp = LpIdle

\* if_stmt is called.
IfEnter ==
    /\ ifs.pc = "idle"
    /\ ifs' = if_stmt_entry(ifs)
    /\ UNCHANGED <<CallVars, lp>>

\* The driver runs a branch it has not run yet.
IfBody ==
    /\ ifs.pc = "driver"
    /\ \E value \in BOOLEAN :
          /\ \A c \in 1..Len(ifs.calls) : ifs.calls[c] # value
          /\ ifs' = if_stmt_body_cb(ifs, value)
    /\ UNCHANGED <<CallVars, lp>>

\* The driver has run both branches and returns.
IfExit ==
    /\ ifs.pc = "driver" /\ Len(ifs.calls) = 2
    /\ \E status, uncopy_ok \in BOOLEAN :
          ifs' = if_stmt_exit(ifs, status, uncopy_ok)
    /\ UNCHANGED <<CallVars, lp>>

\* The AD operation that kept the IfState is destroyed.
IfRelease ==
    /\ ifs.pc \in {"returned", "raised"} /\ ifs.is.state = "retained"
    /\ ifs' = if_stmt_delete_cb(ifs)
    /\ UNCHANGED <<CallVars, lp>>

IfNext == IfEnter \/ IfBody \/ IfExit \/ IfRelease

IfSpec == InitIf /\ [][IfNext]_vars

\* -------------------------------------------------------------- while_loop

\* Largest limit of the counting loops and largest number of body calls that
\* are enumerated.
LoopMax == 5
MaxIter == 6

\* The loops: state (i, s), cond i < n, body (i + 1, s + i) or a body that
\* returns its state unchanged; cond returns a Python bool or a Jit boolean
\* array; the body call number bad_at (if not 0) returns a list, or a tuple
\* that is one entry shorter or longer.
LoopPrograms ==
    [body : {"count", "stay"}, n : 0..LoopMax, bad_at : 0..2,
     bad_kind : {"list", "short", "long"}, cond_kind : {"bool", "array"}]

LoopMethods == {"auto", "scalar", "symbolic", "evaluate", "unknown"}

LoopInputs ==
    {[LpIdle EXCEPT !.method = m, !.prog = p, !.state0 = <<i0, 0>>,
                    !.state = [kind |-> "tuple", items |-> <<i0, 0>>]] :
        m \in LoopMethods, i0 \in 0..1,
        p \in {q \in LoopPrograms : q.bad_at = 0 => q.bad_kind = "list"}}

\* tuple_call(cond, state)
LoopCond(prog, state) ==
    [kind |-> prog.cond_kind, val |-> state.items[1] < prog.n]

\* tuple_call(body, state), for the body call number c.
LoopBody(prog, state, c) ==
    LET it == state.items
        out == IF prog.body = "count" /\ Len(it) >= 2
               THEN <<it[1] + 1, it[2] + it[1]>> ELSE it
    IN IF c # prog.bad_at THEN [kind |-> "tuple", items |-> out]
       ELSE CASE prog.bad_kind = "list" -> [kind |-> "list", items |-> out]
              [] prog.bad_kind = "short" -> [kind |-> "tuple", items |-> <<out[1]>>]
              [] prog.bad_kind = "long" ->
                   [kind |-> "tuple", items |-> Append(out, 0)]

\* check_state: the error it raises, or "none".
check_state_TupleOnly(o, old_state) ==
    IF o.kind # "tuple" THEN "NotATuple" ELSE "none"

check_state(o, old_state) ==
    IF o.kind # "tuple" THEN "NotATuple"
    ELSE IF Len(o.items) # Len(old_state.items) THEN "InconsistentSize"
    ELSE "none"

LpRaise(s, e) == [s EXCEPT !.pc = "raised", !.err = e]

\* bool scalar_loop = method == "scalar"; in method "auto" the type of the
\* first value of cond decides.
scalar_loop(s, cond_val) ==
    IF s.method = "auto" THEN cond_val.kind = "bool" ELSE s.method = "scalar"

\* while_loop up to its loop (scalar) or up to the call of the loop driver:
\* cond is evaluated once; the general path copies the state, checks the
\* condition and the method and allocates the LoopState.
while_loop_entry(s) ==
    LET cond_val == LoopCond(s.prog, s.state)
        s1 == [s EXCEPT !.cond_val = cond_val, !.n_cond = 1]
    IN IF scalar_loop(s, cond_val) THEN [s1 EXCEPT !.pc = "scalar"]
       ELSE IF cond_val.kind # "array" THEN LpRaise(s1, "CondType")
       ELSE IF s.method \notin {"auto", "symbolic", "evaluate"}
       THEN LpRaise(s1, "InvalidMethod")
       ELSE [s1 EXCEPT !.pc = "driver", !.payload = "live"]

\* while (nb::cast<bool>(cond_val)): the cast of a value that is no bool
\* fails.
while_loop_test(s) == s.cond_val.kind = "bool" /\ s.cond_val.val

\* One iteration of the scalar loop: body, check_state, cond. The body takes
\* two arguments: tuple_call raises for a state of another length.
while_loop_iterate(s) ==
    LET o == LoopBody(s.prog, s.state, s.n_body + 1)
        e == check_state(o, s.state)
        s1 == [s EXCEPT !.n_body = @ + 1]
    IN IF Len(s.state.items) # 2 THEN LpRaise(s1, "PythonError")
       ELSE IF e # "none" THEN LpRaise(s1, e)
       ELSE [s1 EXCEPT !.state = o, !.cond_val = LoopCond(s.prog, o),
                       !.n_cond = @ + 1]

\* The scalar loop ends: return state, or the failed cast.
while_loop_leave(s) ==
    IF s.cond_val.kind # "bool" THEN LpRaise(s, "CastError")
    ELSE [s EXCEPT !.pc = "returned", !.result = s.state.items]

InitWhile ==
    /\ InitCall /\ registry.bound = 0 /\ ~flags.record /\ ~flags.symbolic
    /\ sz = SzIdle /\ ifs = IfIdle
    /\ lp \in LoopInputs

\* while_loop is called.
WhileEnter ==
    /\ lp.pc = "idle"
    /\ lp' = while_loop_entry(lp)
    /\ UNCHANGED <<CallVars, ifs>>

\* The scalar loop runs its body.
WhileIterate ==
    /\ lp.pc = "scalar" /\ while_loop_test(lp) /\ lp.n_body < MaxIter
    /\ lp' = while_loop_iterate(lp)
    /\ UNCHANGED <<CallVars, ifs>>

\* The scalar loop is left.
WhileLeave ==
    /\ lp.pc = "scalar" /\ ~while_loop_test(lp)
    /\ lp' = while_loop_leave(lp)
    /\ UNCHANGED <<CallVars, ifs>>

WhileNext == WhileEnter \/ WhileIterate \/ WhileLeave

\* The loop is sequential code: a step that can be taken is taken.
WhileSpec == InitWhile /\ [][WhileNext]_vars /\ WF_vars(WhileNext)

\* ------------------------------------------------------------- LoopState

\* Largest size of a leaf array and number of rounds of the loop driver that
\* are enumerated.
MaxLeafSize == 3
MaxRounds == 2

\* The depth of recursion at which the stack of the process is exhausted.
MaxDepth == 6

\* The objects of a loop state live in a heap (a sequence of nodes, an
\* object is its position); a container names its children, so that it can
\* contain itself. A leaf array has a type, a variable index and the size of
\* that variable.
ArrayNode(ty, idx, n) ==
    [kind |-> "array", ty |-> ty, idx |-> idx, size |-> n,
     kids |-> <<>>, keys |-> <<>>]

ListNode(kids) ==
    [kind |-> "list", ty |-> "list", idx |-> 0, size |-> 0,
     kids |-> kids, keys |-> <<>>]

DictNode(keys, kids) ==
    [kind |-> "dict", ty |-> "dict", idx |-> 0, size |-> 0,
     kids |-> kids, keys |-> keys]

\* The loop states: one array of either type and any size; a list of one to
\* three arrays; a dict; a list that contains itself, directly and through
\* another list; a list of one or two arrays followed by an array.
LoopTrees ==
    {[heap |-> <<ArrayNode("Float", 10 + n, n)>>, state |-> <<1>>] :
        n \in 1..MaxLeafSize}
    \cup {[heap |-> <<ArrayNode("UInt", 20, 2)>>, state |-> <<1>>]}
    \cup {[heap |-> <<ListNode([j \in 1..n |-> j + 1])>>
                    \o [j \in 1..n |-> ArrayNode("Float", 30 + j, 2)],
           state |-> <<1>>] : n \in 1..3}
    \cup {[heap |-> <<DictNode(<<"a">>, <<2>>), ArrayNode("Float", 40, 2)>>,
           state |-> <<1>>],
          [heap |-> <<ListNode(<<2, 1>>), ArrayNode("Float", 31, 2)>>,
           state |-> <<1>>],
          [heap |-> <<ListNode(<<2, 3>>), ArrayNode("Float", 31, 2),
                      ListNode(<<1>>)>>,
           state |-> <<1>>]}
    \cup {[heap |-> <<ListNode([j \in 1..n |-> j + 1])>>
                    \o [j \in 1..n |-> ArrayNode("Float", 30 + j, 2)]
                    \o <<ArrayNode("Float", 50, 2)>>,
           state |-> <<1, n + 2>>] : n \in 1..2}

\* "arg" + std::to_string(i), "[" + std::to_string(i) + "]": a name is the
\* sequence of its parts.
ArgName(j) == <<"arg0", "arg1", "arg2">>[j]
ItemName(j) == <<"[0]", "[1]", "[2]", "[3]">>[j]

InStack_TopOnly(stack, h) == stack # <<>> /\ stack[Len(stack)] = h

InStack(stack, h) == \E j \in 1..Len(stack) : stack[j] = h

LsRaise(t, e) == [t EXCEPT !.err = e]

\* traverse(h, indices), the part before the children: the cycle guard is
\* applied by the caller; the node is pushed and, after the first pass,
\* compared with the entry at entry_pos.
traverse_enter(t, h, name) ==
    LET tp == t.heap[h].ty
        t1 == [t EXCEPT !.stack = Append(@, h), !.visits = @ + 1,
                        !.paths = Append(@, Append(t.stack, h))]
    IN IF t.first_time
       THEN [t1 EXCEPT !.entries =
                Append(@, [name |-> name, type |-> tp, id |-> 0, size |-> 0])]
       ELSE LET id == t.entry_pos + 1
                t2 == [t1 EXCEPT !.entry_pos = id]
            IN IF id > Len(t.entries) THEN LsRaise(t2, "LoopStateChanged")
               ELSE IF name # t.entries[id].name
               THEN LsRaise(t2, "LoopStateChanged")
               ELSE IF tp # t.entries[id].type
               THEN LsRaise(t2, "LoopStateChanged")
               ELSE t2

\* The size test of a leaf against the size recorded for it.
SizeConflict(first_time, s1, s2) ==
    ~first_time /\ s1 # s2 /\ s1 # 1 /\ s2 # 1

\* traverse(h, indices) for a leaf array (s.index): the size tests, then the
\* variable is read into indices, or replaced by the next of indices.
traverse_leaf(Write, t, h, id, name) ==
    LET node == t.heap[h]
        i1 == t.entries[id].id
        s1 == t.entries[id].size
        grow == t.loop_size # node.size /\ i1 # node.idx
        t1 == IF grow
              THEN [t EXCEPT !.loop_size =
                       IF @ > node.size THEN @ ELSE node.size]
              ELSE t
    IN IF SizeConflict(t.first_time, s1, node.size)
       THEN LsRaise(t, "LoopSizeConflict")
       ELSE IF grow /\ t.loop_size # 1 /\ node.size # 1
       THEN LsRaise(t, "LoopSizeIncompatible")
       ELSE IF Write /\ t.indices_pos >= Len(t.indices)
       THEN LsRaise(t1, "InternalError")
       ELSE LET v == IF Write THEN t.indices[t.indices_pos + 1]
                     ELSE [idx |-> node.idx, size |-> node.size]
            IN [t1 EXCEPT
                  !.indices_pos = IF Write THEN @ + 1 ELSE @,
                  !.indices = IF Write THEN @ ELSE Append(@, v),
                  !.heap[h] = [@ EXCEPT !.idx = v.idx, !.size = v.size],
                  !.entries[id] = [@ EXCEPT !.id = v.idx, !.size = v.size]]

\* traverse(h, indices): a node that is on the stack is not entered again;
\* the children of a list are named name[j], those of a dict by their key
\* (at the top of the stack) or name['key'].
RECURSIVE traverse(_, _, _, _)
RECURSIVE traverse_children(_, _, _, _, _)
traverse(Write, t, h, name) ==
    IF t.err # "none" \/ InStack(t.stack, h) THEN t
    ELSE IF Len(t.stack) >= MaxDepth THEN LsRaise(t, "StackExhausted")
    ELSE LET node == t.heap[h]
             t1 == traverse_enter(t, h, name)
             id == IF t.first_time THEN Len(t1.entries) ELSE t1.entry_pos
             t2 == IF t1.err # "none" THEN t1
                   ELSE IF node.kind = "array"
                   THEN traverse_leaf(Write, t1, h, id, name)
                   ELSE traverse_children(Write, t1, h, name, 1)
         IN IF t2.err # "none" THEN t2
            ELSE [t2 EXCEPT !.stack = Front(@)]

traverse_children(Write, t, h, name, j) ==
    LET node == t.heap[h]
    IN IF t.err # "none" \/ j > Len(node.kids) THEN t
       ELSE LET child == IF node.kind = "dict"
                         THEN IF Len(t.stack) = 1 THEN <<node.keys[j]>>
                              ELSE Append(name, node.keys[j])
                         ELSE Append(name, ItemName(j))
            IN traverse_children(Write,
                                 traverse(Write, t, node.kids[j], child),
                                 h, name, j + 1)

RECURSIVE traverse_roots(_, _, _)
traverse_roots(Write, t, j) ==
    IF t.err # "none" \/ j > Len(t.state) THEN t
    ELSE traverse_roots(Write,
                        traverse(Write, t, t.state[j],
                                 IF t.state_labels # <<>>
                                 THEN <<t.state_labels[j]>>
                                 ELSE <<ArgName(j)>>),
                        j + 1)

\* A traversal that does not look at the indices left over.
traverse_all_NoFinalCheck(Write, ls, indices) ==
    LET t0 == [ls EXCEPT !.indices_pos = IF Write THEN 0 ELSE @,
                         !.indices = IF Write THEN indices ELSE <<>>,
                         !.entry_pos = 0, !.stack = <<>>, !.visits = 0,
                         !.paths = <<>>]
        t1 == traverse_roots(Write, t0, 1)
    IN IF Len(ls.state_labels) # 0
          /\ Len(ls.state) # Len(ls.state_labels)
       THEN LsRaise(ls, "LabelSize")
       ELSE IF t1.err # "none" THEN t1
       ELSE [t1 EXCEPT !.first_time = FALSE]

\* LoopState::traverse<Write>(indices): every root in turn.
traverse_all(Write, ls, indices) ==
    LET t0 == [ls EXCEPT !.indices_pos = IF Write THEN 0 ELSE @,
                         !.indices = IF Write THEN indices ELSE <<>>,
                         !.entry_pos = 0, !.stack = <<>>, !.visits = 0,
                         !.paths = <<>>]
        t1 == traverse_roots(Write, t0, 1)
    IN IF Len(ls.state_labels) # 0
          /\ Len(ls.state) # Len(ls.state_labels)
       THEN LsRaise(ls, "LabelSize")
       ELSE IF t1.err # "none" THEN t1
       ELSE IF Write /\ t1.indices_pos # Len(t1.indices)
       THEN LsRaise(t1, "InternalError")
       ELSE [t1 EXCEPT !.first_time = FALSE]

\* The LoopState of a call that has reached the loop driver.
NewLoopState(tree) ==
    [LsNone EXCEPT !.heap = tree.heap, !.state = tree.state]

\* The loop driver calls, in this order: read, then per round cond, body,
\* read, write.
PhaseKind(ph) ==
    IF ph = 0 THEN "read"
    ELSE <<"cond", "body", "read", "write">>[((ph - 1) % 4) + 1]

\* The names and types of a list of entries.
NamesAndTypes(entries) ==
    [j \in 1..Len(entries) |->
        [name |-> entries[j].name, type |-> entries[j].type]]

\* The nodes of a loop state in the order of a traversal, with their names
\* and types: what a first traversal records.
NodeSeq(ls) ==
    NamesAndTypes(
        traverse_roots(FALSE, [LsNone EXCEPT !.heap = ls.heap,
                                             !.state = ls.state,
                                             !.state_labels = ls.state_labels],
                       1).entries)

\* The sizes of the nodes of a loop state in the order of a traversal (0 for
\* a container): jit_var_size of the variable of each leaf.
NodeSizes(ls) ==
    LET e == traverse_roots(FALSE, [LsNone EXCEPT !.heap = ls.heap,
                                                  !.state = ls.state,
                                                  !.state_labels =
                                                      ls.state_labels],
                            1).entries
    IN [j \in 1..Len(e) |-> e[j].size]

\* A callback has returned (or raised: the driver deletes the LoopState and
\* the exception leaves while_loop); a traversal is logged with what it
\* found and what it left.
AfterCallback(s, ls, kind, before) ==
    LET pass == [kind |-> kind, first |-> before.first_time,
                 nodes |-> NodeSeq(before),
                 sizes |-> NodeSizes(before),
                 entries_before |-> before.entries,
                 entries_after |-> ls.entries, visits |-> ls.visits,
                 paths |-> ls.paths, entry_pos |-> ls.entry_pos,
                 heap |-> before.heap, roots |-> before.state,
                 stack |-> ls.stack, err |-> ls.err]
        s1 == [s EXCEPT !.ls = ls, !.phase = @ + 1,
                        !.passes = IF kind \in {"read", "write"}
                                   THEN Append(@, pass) ELSE @]
    IN IF ls.err # "none"
       THEN [s1 EXCEPT !.pc = "raised", !.err = ls.err, !.payload = "deleted"]
       ELSE s1

InitLoopState ==
    /\ InitCall /\ registry.bound = 0 /\ ~flags.record /\ ~flags.symbolic
    /\ sz = SzIdle /\ ifs = IfIdle
    /\ \E tree \in LoopTrees :
          lp = [LpIdle EXCEPT !.pc = "driver", !.method = "symbolic",
                              !.payload = "live", !.ls = NewLoopState(tree)]

LoopRunning(kind) ==
    /\ lp.pc = "driver" /\ lp.ls.heap # <<>>
    /\ lp.phase <= 4 * MaxRounds /\ PhaseKind(lp.phase) = kind

\* while_loop_read_cb
LoopRead ==
    /\ LoopRunning("read")
    /\ lp' = AfterCallback(lp, traverse_all(FALSE, lp.ls, <<>>), "read", lp.ls)
    /\ UNCHANGED <<CallVars, ifs>>

\* while_loop_cond_cb: loop_size becomes the size of the condition.
LoopCondCb ==
    /\ LoopRunning("cond")
    /\ \E n \in 1..MaxLeafSize :
          lp' = AfterCallback(lp, [lp.ls EXCEPT !.loop_size = n], "cond", lp.ls)
    /\ UNCHANGED <<CallVars, ifs>>

\* while_loop_body_cb: the body returns a tuple of the same length.
LoopBodyCb ==
    /\ LoopRunning("body")
    /\ \E tree \in LoopTrees :
          /\ Len(tree.state) = Len(lp.ls.state)
          /\ lp' = AfterCallback(lp, [lp.ls EXCEPT !.heap = tree.heap,
                                                   !.state = tree.state],
                                 "body", lp.ls)
    /\ UNCHANGED <<CallVars, ifs>>

\* while_loop_write_cb: the driver hands back one new variable per variable
\* it read, of the same size or, for a size of 1, of the size of the loop.
LoopWrite ==
    /\ LoopRunning("write")
    /\ \E widen \in BOOLEAN :
          LET indices ==
                  [j \in 1..Len(lp.ls.indices) |->
                      [idx |-> 100 + lp.ls.indices[j].idx,
                       size |-> IF widen /\ lp.ls.indices[j].size = 1
                                THEN lp.ls.loop_size
                                ELSE lp.ls.indices[j].size]]
          IN lp' = AfterCallback(lp, traverse_all(TRUE, lp.ls, indices),
                                 "write", lp.ls)
    /\ UNCHANGED <<CallVars, ifs>>

\* ad_loop returns after a round: with rv the payload is deleted, without
\* it the loop operation keeps the payload and cleanup() releases its
\* arrays, starting at the state tuple (object 0) with an empty stack.
LoopReturn ==
    /\ lp.pc = "driver" /\ lp.phase >= 1 /\ PhaseKind(lp.phase) = "cond"
    /\ \E rv_ \in BOOLEAN :
          lp' = IF rv_
                THEN [lp EXCEPT !.pc = "returned", !.payload = "deleted"]
                ELSE [lp EXCEPT !.pc = "cleanup", !.ls.stack = <<0>>,
                                !.cl = [frames |-> <<[h |-> 0, j |-> 1,
                                                      items |-> <<>>]>>,
                                        steps |-> 1, result |-> CleanNone]]
    /\ UNCHANGED <<CallVars, ifs>>

\* The children cleanup_impl descends into: the items of a tuple or list,
\* the values of a dict (its keys, strings, are returned as they are).
CleanKids(ls, h) == IF h = 0 THEN ls.state ELSE ls.heap[h].kids

\* What cleanup_impl returns for h once its children are done: tp() for an
\* array, a new container of the results otherwise.
CleanResult(ls, f) ==
    IF f.h = 0 THEN [kind |-> "tuple", ty |-> "tuple", items |-> f.items]
    ELSE [kind |-> ls.heap[f.h].kind, ty |-> ls.heap[f.h].ty,
          items |-> f.items]

\* One step of cleanup_impl: the call at the top of the recursion either
\* turns to its next child (None when the child is on the stack, a call
\* otherwise) or returns its result to its caller; the outermost call
\* returns the new state.
cleanup_impl(s) ==
    LET n == Len(s.cl.frames)
        f == s.cl.frames[n]
        kids == CleanKids(s.ls, f.h)
    IN IF f.j > Len(kids)
       THEN IF n = 1
            THEN [s EXCEPT !.pc = "returned", !.ls.stack = <<>>,
                           !.ls.heap = <<>>, !.ls.state = <<>>,
                           !.cl.frames = <<>>,
                           !.cl.result = CleanResult(s.ls, f)]
            ELSE [s EXCEPT !.ls.stack = Front(@),
                           !.cl.frames =
                               [Front(@) EXCEPT ![n - 1].items =
                                   Append(@, CleanResult(s.ls, f))]]
       ELSE LET child == kids[f.j]
            IN IF InStack(s.ls.stack, child)
               THEN [s EXCEPT !.cl.frames[n] =
                        [@ EXCEPT !.j = @ + 1,
                                  !.items = Append(@, CleanNone)]]
               ELSE IF n >= MaxDepth
               THEN [s EXCEPT !.pc = "raised", !.err = "StackExhausted"]
               ELSE [s EXCEPT !.ls.stack = Append(@, child),
                              !.cl.steps = @ + 1,
                              !.cl.frames =
                                  Append([@ EXCEPT ![n].j = @ + 1],
                                         [h |-> child, j |-> 1,
                                          items |-> <<>>])]

\* LoopState::cleanup
LoopCleanup ==
    /\ lp.pc = "cleanup"
    /\ lp' = cleanup_impl(lp)
    /\ UNCHANGED <<CallVars, ifs>>

LoopStateNext ==
    LoopRead \/ LoopCondCb \/ LoopBodyCb \/ LoopWrite \/ LoopReturn
    \/ LoopCleanup

\* cleanup() runs to its end once it is called.
LoopStateSpec ==
    InitLoopState /\ [][LoopStateNext]_vars /\ WF_vars(LoopCleanup)

\* ------------------------------------- the traversals on their own

\* The indices a caller of traverse<true> may provide after a read: the
\* variables that were read, a new variable for each of them, all but the
\* last of these, or one more.
ProvidedIndices(ls) ==
    LET fresh == [j \in 1..Len(ls.indices) |->
                     [idx |-> 100 + ls.indices[j].idx,
                      size |-> ls.indices[j].size]]
    IN {ls.indices, fresh, Append(fresh, [idx |-> 99, size |-> 1])}
       \cup (IF fresh = <<>> THEN {} ELSE {Front(fresh)})

\* traverse<false>(indices), at first and after every write.
TraverseRead ==
    /\ lp.pc = "driver" /\ Len(lp.passes) < 2 * MaxRounds
    /\ IF lp.passes = <<>> THEN TRUE ELSE Last(lp.passes).kind = "write"
    /\ lp' = AfterCallback(lp, traverse_all(FALSE, lp.ls, <<>>), "read", lp.ls)
    /\ UNCHANGED <<CallVars, ifs>>

\* traverse<true>(indices) after a read.
TraverseWrite ==
    /\ lp.pc = "driver" /\ lp.passes # <<>>
    /\ Last(lp.passes).kind = "read"
    /\ \E indices \in ProvidedIndices(lp.ls) :
          lp' = AfterCallback(lp, traverse_all(TRUE, lp.ls, indices), "write",
                              lp.ls)
    /\ UNCHANGED <<CallVars, ifs>>

TraverseNext == TraverseRead \/ TraverseWrite

TraverseSpec == InitLoopState /\ [][TraverseNext]_vars

\* ------------------------------------------------------------------ claims

Done == pc \in {"returned", "raised"}

EntryRefs == [h \in 1..3 |-> 1]

\* C1: every call of ad_call with a non-null cleanup_fn that ends by raising
\* has invoked cleanup_fn(payload) exactly once in total, counting the
\* catch-all and the destructor of a CallOp created during the call.
C1_CleanupOnceOnRaise ==
    (pc = "raised" /\ inp.cleanup) => Len(cleanup_calls) = 1

\* C2: when ad_call returns, it returns false exactly when a CallOp was
\* constructed and accepted by ad_custom_op; then cleanup_fn runs once, at the
\* CallOp's destruction, and never in the dispatcher; when it returns true,
\* neither the dispatcher nor any CallOp (one disabled with disable_deleter
\* included) ever runs cleanup_fn.
C2_CleanupOwner ==
    pc = "returned" =>
        /\ result = "false" <=> op.state \in {"attached", "released"}
        /\ result = "false" =>
              cleanup_calls = IF op.state = "released" /\ inp.cleanup
                              THEN <<"op">> ELSE <<>>
        /\ result = "true" => cleanup_calls = <<>> /\ ~op.deleter

\* A call that returned false, whose CallOp has been destroyed since and has
\* run the cleanup.
C2_Witness ==
    /\ pc = "returned" /\ result = "false" /\ op.state = "released"
    /\ cleanup_calls = <<"op">>

\* C3: every frame the dispatcher pushes on the mask stack, the self stack and
\* the recording-scope stack is released, in the reverse order of acquisition,
\* and when the call has returned or raised each of the three stacks is as it
\* was at entry (depth and top).
C3_StacksBalanced ==
    /\ stk.lifo
    /\ Done =>
          /\ stk.frames = <<>> /\ stk.saved = <<>>
          /\ stk.mask = EntryStack(flags.symbolic).mask
          /\ stk.self = EntryStack(flags.symbolic).self
          /\ stk.rec = EntryStack(flags.symbolic).rec

\* A recording call entered inside a symbolic region whose second callable
\* raised: self, mask and recording scope were all held at the failure.
C3_Witness ==
    /\ pc = "raised" /\ strategy = "record" /\ err = "UserError"
    /\ Len(user_calls) = 2 /\ flags.symbolic /\ stk.ended = <<TRUE>>

\* The failures of a user_fn invocation and of the check that follows it.
CallableErrors ==
    {"UserError", "EmptyReturn", "ReturnArityMismatch", "ReturnTypeMismatch",
     "ReturnBackendMismatch"}

\* C4: if a user_fn invocation (or the check after it) raises after an earlier
\* callable has completed, the recording scope has been ended with cleanup set
\* and the caller's rv is as it was before the call (empty).
C4_NoPartialState ==
    (pc = "raised" /\ err \in CallableErrors /\ Len(user_calls) >= 2) =>
        /\ rv = <<>>
        /\ strategy = "record" => stk.ended = <<TRUE>>

\* C5: in every strategy, a lane whose instance_index is 0 holds zero in every
\* returned value.
C5_NullLanesAreZero ==
    (pc = "returned" /\ strategy \in {"getter", "record", "reduce"}) =>
        \A j \in 1..Len(rv) : \A k \in 1..size :
            Lane(inp.index, k) = 0 => Lane(rv[j], k) = 0

\* C6: after a call that returns (degenerate case included) every handle in rv
\* has a non-zero IR part, and no user_fn invocation of such a call left a
\* zero handle in a return slot.
C6_RvNonZero ==
    pc = "returned" =>
        /\ \A j \in 1..Len(rv) : rv[j].ir # 0
        /\ \A c \in 1..Len(user_calls) :
              \A j \in 1..Len(user_calls[c].ret) : user_calls[c].ret[j] # "Z"

\* C7 as stated: after a successful call the reference count of every input
\* handle is what it was before the call, also when a CallOp was attached.
C7_RefsRestored == pc = "returned" => rc = EntryRefs

\* The references a live CallOp holds on the input with IR id h.
CallOpRefs(h) ==
    (IF inp.index.ir = h THEN 1 ELSE 0) + (IF inp.mask.ir = h THEN 1 ELSE 0)
    + Cardinality({j \in 1..Len(inp.args) : inp.args[j].ir = h})

\* C7 amended: after a successful call the reference count of every input
\* handle is what it was before the call, except while a CallOp that the call
\* attached is alive: it holds one more reference on instance_index, on mask
\* and on every argument, which its destructor gives back.
C7_RefsRestoredOrHeld ==
    pc = "returned" =>
        rc = [h \in 1..3 |->
                 EntryRefs[h] + IF op.state = "attached" THEN CallOpRefs(h) ELSE 0]

\* A returned call whose attached CallOp still holds the inputs.
C7_Witness ==
    /\ pc = "returned" /\ op.state = "attached"
    /\ inp.mask.ir # 0 /\ inp.args # <<>> /\ rc = [h \in 1..3 |-> 2]

\* C8: a non-degenerate call runs exactly one strategy, chosen by priority:
\* the getter strategy when is_getter is set (whatever the flags), else the
\* recording strategy when the SymbolicCalls flag is on, else the evaluated
\* strategy; with is_getter unset, the flag off and a symbolic region active
\* the call fails with SymbolicModeRequired before any user_fn invocation.
C8_StrategyPriority ==
    (/\ pc # "idle" /\ err \notin {"ModeConflict", "ShapeMismatch"}
     /\ ~IsDegenerate(inp, callable_count, size)) =>
        LET want == IF inp.is_getter THEN "getter"
                    ELSE IF flags.record THEN "record"
                    ELSE IF flags.symbolic THEN "none"
                    ELSE "reduce"
        IN /\ strategy = want
           /\ \A c \in 1..Len(user_calls) : user_calls[c].strategy = want
           /\ want = "none" =>
                 /\ pc = "raised" /\ err = "SymbolicModeRequired"
                 /\ user_calls = <<>>

\* A getter call that ran to its return, one user_fn invocation per callable,
\* although the SymbolicCalls flag is on and a symbolic region is active.
C8_Witness ==
    /\ pc = "returned" /\ strategy = "getter" /\ inp.is_getter
    /\ flags.record /\ flags.symbolic /\ Len(user_calls) = callable_count
    /\ callable_count = MaxCallables

SizeDone == sz.sizes # <<>> /\ sz.pos = Len(sz.sizes)

\* C9 as stated: the unified size is the maximum of the input sizes (sizes 0,
\* 1 and N included), and the call fails with ShapeMismatch exactly when some
\* input has a size that is neither 1 nor that maximum.
C9_SizeIsMax ==
    SizeDone =>
        LET m == SeqMax(sz.sizes)
        IN /\ sz.u.ok <=> \A p \in 1..Len(sz.sizes) : sz.sizes[p] \in {1, m}
           /\ sz.u.ok => sz.u.size = m

\* C9 amended: the call fails with ShapeMismatch exactly when two inputs have
\* different sizes that are both other than 1; otherwise the unified size is
\* the one size other than 1 (so 0 when an input is empty), or 1 when every
\* input has size 1. Both depend on the set of sizes only, not on their
\* order. When no input is empty this is the maximum, and the failure occurs
\* exactly when some size is neither 1 nor the maximum.
C9_SizeIsTheNonUnitSize ==
    SizeDone =>
        LET big == {sz.sizes[p] : p \in 1..Len(sz.sizes)} \ {1}
            m   == SeqMax(sz.sizes)
        IN /\ sz.u.ok <=> Cardinality(big) <= 1
           /\ sz.u.ok => sz.u.size = IF big = {} THEN 1 ELSE CHOOSE x \in big : TRUE
           /\ (\A p \in 1..Len(sz.sizes) : sz.sizes[p] >= 1) =>
                 /\ sz.u.ok <=> \A p \in 1..Len(sz.sizes) : sz.sizes[p] \in {1, m}
                 /\ sz.u.ok => sz.u.size = m

\* An empty index with a scalar mask and a scalar argument: accepted, with
\* unified size 0 although the maximum is 1.
C9_Witness ==
    /\ SizeDone /\ sz.sizes = <<0, 1, 1>> /\ sz.u.ok /\ sz.u.size = 0

\* C10: in the degenerate case (zero instance_index, unified size 0, literal
\* false mask or callable count 0) user_fn runs exactly once, with a null
\* instance pointer under an all-false mask; no strategy runs and no CallOp is
\* built; every returned handle is replaced by a zero literal of its type and
\* of the unified size without AD part; the call returns true.
C10_DegenerateCase ==
    (pc = "returned" /\ IsDegenerate(inp, callable_count, size)) =>
        /\ Len(user_calls) = 1
        /\ user_calls[1].ptr = 0 /\ user_calls[1].mask = "false"
        /\ user_calls[1].strategy = "degenerate"
        /\ op.state = "none" /\ result = "true"
        /\ Len(rv) = Len(rv2)
        /\ \A j \in 1..Len(rv) : rv[j] = jit_var_literal_zero(rv2[j].ty, size)

\* C11: ad_call fails with ModeConflict, before any user_fn invocation,
\* exactly when domain and a non-zero callable_count are both given or neither
\* is; with a domain alone the callable count of the call is the registry's
\* id bound.
C11_ModeConflict ==
    pc # "idle" =>
        /\ err = "ModeConflict" <=> ((inp.callable_count # 0) <=> inp.domain)
        /\ err = "ModeConflict" => pc = "raised" /\ user_calls = <<>>
        /\ (inp.domain /\ inp.callable_count = 0) =>
              callable_count = registry.bound

\* A call given neither a domain nor a callable count has failed.
C11_Witness ==
    /\ pc = "raised" /\ err = "ModeConflict" /\ user_calls = <<>>
    /\ ~inp.domain /\ inp.callable_count = 0

\* A strategy has returned and ad_call has gone through its AD wrapping.
PostDone ==
    /\ strategy \in {"getter", "record", "reduce"}
    /\ pc = "returned" \/ (pc = "raised" /\ err = "ADError")

\* An argument, or a value some callable returned, carries an AD id.
HasAd ==
    \/ \E j \in 1..Len(inp.args) : inp.args[j].ad # 0
    \/ \E c \in 1..Len(user_calls) :
          \E j \in 1..Len(user_calls[c].ret) : user_calls[c].ret[j] \in {"D", "M"}

\* The return slots in which some callable returned an AD-tracked value.
AdSlots ==
    {j \in 1..Len(rv) : \E c \in 1..Len(user_calls) :
        j <= Len(user_calls[c].ret) /\ user_calls[c].ret[j] \in {"D", "M"}}

\* An accepted CallOp has every AD-tracked argument as input and every
\* differentiable return slot, promoted to an AD node, as output.
Registered ==
    /\ op.input_offsets =
          SortedSeq({j \in 1..Len(inp.args) : inp.args[j].ad # 0})
    /\ op.output_offsets = SortedSeq(AdSlots)
    /\ \A j \in 1..Len(rv) : rv[j].ad # 0 <=> j \in AdSlots

\* C12 as stated: after any of the three strategies, a CallOp is constructed
\* (outputs promoted, inputs and outputs registered) exactly when ad_enabled
\* is true and an argument or a return value carries an AD id.
C12_CallOpAfterAnyStrategy ==
    PostDone =>
        /\ op.state # "none" <=> (inp.ad /\ HasAd)
        /\ op.state \in {"attached", "released"} => Registered

\* C12 amended: after the getter or the recording strategy a CallOp is
\* constructed (outputs promoted, inputs and outputs registered) exactly when
\* ad_enabled is true and an argument or a return value carries an AD id;
\* after the evaluated strategy no CallOp is ever constructed, the
\* derivatives being tracked by the gathers and scatters of that strategy.
C12_CallOpUnlessEvaluated ==
    PostDone =>
        /\ op.state # "none" <=> (inp.ad /\ HasAd /\ strategy # "reduce")
        /\ op.state \in {"attached", "released"} => Registered

\* The evaluated strategy returned AD-tracked values for an AD-tracked
\* argument with ad_enabled set, and no CallOp was built.
C12_Witness ==
    /\ pc = "returned" /\ strategy = "reduce" /\ inp.ad /\ op.state = "none"
    /\ \E j \in 1..Len(inp.args) : inp.args[j].ad # 0
    /\ \E j \in 1..Len(rv) : rv[j].ad # 0

\* C13: when ad_call returns true after the getter or the recording strategy,
\* every handle in rv has a zero AD part and a non-zero IR part on which the
\* slot owns exactly one reference, and no reference is left on an AD node
\* made for an output (the 'not needed' case included).
C13_PlainOwnedOutputs ==
    (pc = "returned" /\ result = "true" /\ strategy \in {"getter", "record"}) =>
        /\ Len(rv_refs) = Len(rv)
        /\ \A j \in 1..Len(rv) :
              /\ rv[j].ad = 0 /\ rv[j].ir # 0
              /\ rv_refs[j] = [jit |-> 1, ad |-> 0]

\* A recording call whose AD-tracked output was promoted, whose CallOp was
\* not needed and dropped, and that returned true.
C13_Witness ==
    /\ pc = "returned" /\ result = "true" /\ strategy = "record"
    /\ op.state = "dropped" /\ op.output_offsets # <<>> /\ rv # <<>>

\* The callable id an invocation was made for, from its instance pointer.
CallableOf(call) == IF inp.domain THEN call.ptr - 100 ELSE call.ptr + 1

\* The invocations made for callable id c.
CallsOf(c) == {n \in 1..Len(user_calls) : CallableOf(user_calls[n]) = c}

\* Lane k of the j-th result of callable c: what the kind of value it
\* returned holds for lane k of the argument (a getter is given no argument;
\* -1 if the callable returned no j-th value).
ResultLane(c, j, k) ==
    LET ret == user_calls[Min(CallsOf(c))].ret
        a   == IF inp.args = <<>> \/ strategy = "getter" THEN 0
               ELSE Lane(inp.args[1], k)
    IN IF j > Len(ret) THEN -1
       ELSE CASE ret[j] = "S" -> 7
              [] ret[j] \in {"L", "T", "B", "W"} -> UserVal(c, 0)
              [] ret[j] \in {"V", "D"} -> UserVal(c, a)
              [] ret[j] = "M" -> c * a
              [] OTHER -> -1

\* Lane k is active: its mask bit holds (or there is no mask) and its
\* instance id is not 0.
ActiveLane(k) ==
    /\ inp.mask.ir = 0 \/ Lane(inp.mask, k) = 1
    /\ Lane(inp.index, k) # 0

\* What lane k of rv[j] is to hold.
ExpectedLane(j, k) ==
    IF ActiveLane(k) THEN ResultLane(Lane(inp.index, k), j, k) ELSE 0

\* C14: the recording and the evaluated strategy return the same values for
\* the same user_fn and inputs: both return, in lane k of rv[j], the j-th
\* result of callable instance_index[k] on lane k of the arguments when
\* mask[k] holds and instance_index[k] is not 0, and zero otherwise.
C14_StrategiesAgree ==
    (pc = "returned" /\ strategy \in {"record", "reduce"}) =>
        \A j \in 1..Len(rv) :
            /\ jit_var_size(rv[j]) = size
            /\ \A k \in 1..size :
                  /\ ActiveLane(k) => CallsOf(Lane(inp.index, k)) # {}
                  /\ Lane(rv[j], k) = ExpectedLane(j, k)

\* C15: in the evaluated strategy user_fn runs once per bucket with a
\* non-zero id, in id order, on the argument lanes of the bucket, and its
\* results are scattered to those lanes, so that in the end lane k of rv[j]
\* holds the j-th result of callable instance_index[k] on lane k of the
\* arguments, no bucket having overwritten what another one wrote.
C15_ScatterPerBucket ==
    (pc = "returned" /\ strategy = "reduce") =>
        /\ \A a, b \in 1..Len(user_calls) :
              a < b => CallableOf(user_calls[a]) < CallableOf(user_calls[b])
        /\ \A k \in 1..size :
              ActiveLane(k) =>
                  /\ Cardinality(CallsOf(Lane(inp.index, k))) = 1
                  /\ \A j \in 1..Len(rv) :
                        Lane(rv[j], k) = ResultLane(Lane(inp.index, k), j, k)

\* C16: after a successful call of the evaluated strategy rv holds one handle
\* per return slot of user_fn, each of the unified size, also when every
\* lane's instance id is 0 or masked off so that no bucket is processed.
C16_EvaluatedRvShape ==
    (pc = "returned" /\ strategy = "reduce") =>
        /\ user_calls # <<>>
        /\ \A n \in 1..Len(user_calls) : Len(rv) = Len(user_calls[n].ret)
        /\ \A j \in 1..Len(rv) : jit_var_size(rv[j]) = size

\* C17: in the getter strategy, every lane k whose mask bit holds and whose
\* instance id i is not 0 holds, in every return slot j, the scalar that
\* callable i returned for slot j, for every registered id i, also when
\* other ids are unregistered and skipped.
C17_GetterGathersOwnValue ==
    (pc = "returned" /\ strategy = "getter") =>
        \A k \in 1..size :
            (ActiveLane(k) /\ CallsOf(Lane(inp.index, k)) # {}) =>
                LET c == Lane(inp.index, k)
                IN \A j \in 1..Len(user_calls[Min(CallsOf(c))].ret) :
                      j <= Len(rv) /\ Lane(rv[j], k) = ResultLane(c, j, k)

\* C18: in every strategy, when two invoked callables return different
\* numbers of values (one of them possibly none), the call has failed with
\* ReturnArityMismatch at the later of the two, no indirect call has been
\* emitted, and the mask, self and recording-scope stacks are as at entry.
C18_ArityMismatchDetected ==
    \A a, b \in 1..Len(user_calls) :
        (/\ a < b /\ strategy \in {"getter", "record", "reduce"}
         /\ ~Raises(user_calls[b].ret)
         /\ Len(user_calls[a].ret) # Len(user_calls[b].ret)) =>
            /\ pc = "raised" /\ err = "ReturnArityMismatch"
            /\ b = Len(user_calls) /\ emitted = <<>>
            /\ stk.mask = EntryStack(flags.symbolic).mask
            /\ stk.self = EntryStack(flags.symbolic).self
            /\ stk.rec = EntryStack(flags.symbolic).rec

\* ---------------------------------------------------------------- C19
\* Every callable of the forward pass returned c * x.
LinearCallables ==
    /\ user_calls # <<>>
    /\ \A n \in 1..Len(user_calls) : user_calls[n].ret = <<"M">>

\* The backward pass ran and neither the environment refused the call it
\* makes (a symbolic region without the recording flag) nor the backend
\* failed to emit it.
BackwardRan ==
    /\ bwd.state # "idle" /\ bwd.mode = "backward"
    /\ bwd.err \notin {"SymbolicModeRequired", "EmitError"}

\* C19: for registered callables f_i(x) = c_i * x of an AD-tracked x (here
\* c_i = i), the backward pass of the attached
\* CallOp with output cotangent 1 accumulates into grad(x), in every lane,
\* the coefficient of the callable the lane's instance id selects, nothing in
\* a lane whose instance id is 0, and the traversal inside the callback runs
\* within an isolation boundary.
C19_BackwardGradient ==
    (/\ LinearCallables /\ BackwardRan
     /\ ~inp.is_getter /\ op.input_offsets # <<>>
     /\ \A k \in 1..size :
           Lane(inp.index, k) = 0 \/ ForwardCalls(Lane(inp.index, k)) # {}) =>
        /\ bwd.state = "done"
        /\ Len(bwd.grads) = Len(op.input_offsets)
        /\ \A p \in 1..Len(bwd.grads) : \A k \in 1..size :
              bwd.grads[p][k] =
                  IF ActiveLane(k) THEN Lane(inp.index, k) ELSE 0
        /\ \A c \in 1..Len(bwd.calls) : bwd.calls[c].isolation >= 1

\* ---------------------------------------------------------------- C20
Abs(n) == IF n < 0 THEN 0 - n ELSE n

\* The call went through the conditional driver.
IfVector == ifs.cond.kind = "array" /\ ifs.is.state # "none"

\* C20: with a vector condition if_stmt returns, in every lane, the value of
\* true_fn(args) where the condition is true and of false_fn(args) where it
\* is false, in symbolic, evaluated and automatic mode alike, so that -x / x
\* under x < 0 gives |x| and j - i / i - j under i < j gives |i - j|; with a
\* scalar condition it returns the result of the one selected branch.
C20_IfStmtSelectsPerLane ==
    ifs.pc = "returned" =>
        LET t == PyCall(true_fn(ifs.program), ifs.args)
            f == PyCall(false_fn(ifs.program), ifs.args)
            x == ifs.args[1]
        IN IF IfVector
           THEN /\ Len(ifs.result) = Len(t)
                /\ \A j \in 1..Len(t) : \A k \in 1..IfWidth :
                      ArrLane(ifs.result[j], k) =
                          IF ifs.cond.val[k] THEN ArrLane(t[j], k)
                          ELSE ArrLane(f[j], k)
                /\ (/\ ifs.program = "my_abs"
                    /\ \A k \in 1..IfWidth : ifs.cond.val[k] = (x.val[k] < 0))
                   => \A k \in 1..IfWidth :
                         ArrLane(ifs.result[1], k) = Abs(x.val[k])
                /\ (/\ ifs.program = "simple_cond"
                    /\ \A k \in 1..IfWidth :
                          ifs.cond.val[k] = (x.val[k] < ifs.args[2].val[1]))
                   => \A k \in 1..IfWidth :
                         ArrLane(ifs.result[1], k) =
                             Abs(x.val[k] - ifs.args[2].val[1])
           ELSE ifs.result = IF ifs.cond.val[1] THEN t ELSE f

\* A vector call returned whose condition selects the true branch in one
\* lane and the false branch in the other.
C20_Witness ==
    /\ ifs.pc = "returned" /\ IfVector /\ ifs.program = "simple_cond"
    /\ ifs.mode = "evaluated"
    /\ ifs.cond.val[1] /\ ~ifs.cond.val[2]
    /\ ifs.args[1].val[1] < ifs.args[2].val[1]
    /\ ifs.args[1].val[2] > ifs.args[2].val[1]
    /\ ifs.result[1].val[1] = ifs.args[2].val[1] - ifs.args[1].val[1]
    /\ ifs.result[1].val[2] = ifs.args[1].val[2] - ifs.args[2].val[1]

\* ---------------------------------------------------------------- C21
\* The call is a scalar one by its mode, or by its condition in mode "auto".
ScalarCall ==
    ifs.mode = "scalar" \/ (ifs.mode = "auto" /\ ifs.cond.kind = "bool")

ShapeOf(r) == [j \in 1..Len(r) |-> r[j].ty]

\* The two branches of the program return results of different shapes.
ShapesDiffer ==
    ShapeOf(PyCall(true_fn(ifs.program), ifs.args))
        # ShapeOf(PyCall(false_fn(ifs.program), ifs.args))

\* C22: in a non-scalar if_stmt, when the results of the two branches differ
\* in shape the call fails with ReturnShapeMismatch once the second branch has
\* run, whichever ran first, and returns nothing (and it fails so only then);
\* the results are compared slot by slot under the slots' labels when the
\* labels and both results have the same non-zero length, and as a whole
\* otherwise.
C22_ShapeMismatch ==
    (ifs.is.state # "none" /\ Len(ifs.calls) = 2) =>
        LET t == PyCall(true_fn(ifs.program), ifs.args)
            f == PyCall(false_fn(ifs.program), ifs.args)
        IN /\ ShapesDiffer =>
                 /\ ifs.pc = "raised" /\ ifs.err = "ReturnShapeMismatch"
                 /\ ifs.result = <<>>
           /\ ~ShapesDiffer => ifs.err # "ReturnShapeMismatch"
           /\ ifs.checked =
                 IF Len(ifs.rv_labels) = Len(t) /\ Len(t) = Len(f) /\ Len(t) > 0
                 THEN ifs.rv_labels ELSE <<"result">>

\* The false branch ran first, the true branch second, their results have
\* one entry each of different types, compared under the slot's label; the
\* call failed.
C22_Witness ==
    /\ ifs.pc = "raised" /\ ifs.err = "ReturnShapeMismatch"
    /\ ifs.calls = <<FALSE, TRUE>> /\ ifs.program = "retyped"
    /\ ifs.checked = <<"r">> /\ ifs.rv_labels = <<"r">>

\* ---------------------------------------------------------------- C23
\* state, body(state), body(body(state)), ...: the k-th state of the
\* sequence, for a body that returns what it should.
RECURSIVE Iterated(_, _, _)
Iterated(prog, items, k) ==
    IF k <= 0 THEN items
    ELSE Iterated(prog,
                  IF prog.body = "count"
                  THEN <<items[1] + 1, items[2] + items[1]>> ELSE items,
                  k - 1)

CondAt(k) == Iterated(lp.prog, lp.state0, k)[1] < lp.prog.n

\* The k-th state is the first one for which cond is false.
StopsAt(k) == ~CondAt(k) /\ \A m \in 0..(k - 1) : CondAt(m)

\* One of the first k body calls returns something that is no tuple of the
\* length of the state.
FaultWithin(k) == lp.prog.bad_at # 0 /\ lp.prog.bad_at <= k

\* The call is a scalar loop over a condition that has a truth value.
ScalarLoop ==
    /\ lp.prog.cond_kind = "bool"
    /\ lp.method \in {"scalar", "auto"}

C23_Safe ==
    (ScalarLoop /\ lp.pc # "idle") =>
        /\ lp.pc \in {"scalar", "returned", "raised"} /\ lp.payload = "none"
        /\ lp.pc = "scalar" =>
              /\ lp.n_cond = lp.n_body + 1
              /\ lp.state.items = Iterated(lp.prog, lp.state0, lp.n_body)
        /\ lp.pc = "returned" =>
              /\ StopsAt(lp.n_body) /\ ~FaultWithin(lp.n_body)
              /\ lp.n_cond = lp.n_body + 1
              /\ lp.result = Iterated(lp.prog, lp.state0, lp.n_body)
        /\ lp.pc = "raised" =>
              /\ lp.err \in {"NotATuple", "InconsistentSize"}
              /\ lp.n_body = lp.prog.bad_at /\ lp.n_cond = lp.n_body
              /\ \A m \in 0..(lp.n_body - 1) : CondAt(m)
        /\ (FaultWithin(lp.n_body) /\ lp.n_body > 0) => lp.pc = "raised"

C24_LoopStateChanged ==
    \A p \in 1..Len(lp.passes) :
        LET pass == lp.passes[p]
        IN ~pass.first =>
              /\ pass.nodes # NamesAndTypes(pass.entries_before) =>
                    pass.err \in {"LoopStateChanged", "LoopSizeConflict",
                                  "LoopSizeIncompatible"}
              /\ pass.err = "LoopStateChanged" =>
                    pass.nodes # NamesAndTypes(pass.entries_before)
              /\ NamesAndTypes(pass.entries_after)
                    = NamesAndTypes(pass.entries_before)

\* ---------------------------------------------------------------- C25
\* A size that may follow the recorded size s1: the same size, or any size
\* when s1 is 1.
SizeMayFollow(s1, s2) == s1 = s2 \/ s1 = 1

\* The leaves of a later traversal whose size is not one that may follow the
\* recorded size, the nodes being those recorded.
BadSizes(pass) ==
    {j \in 1..Len(pass.sizes) :
        /\ j <= Len(pass.entries_before)
        /\ pass.nodes[j].type \notin {"list", "dict"}
        /\ ~SizeMayFollow(pass.entries_before[j].size, pass.sizes[j])}

\* C25: between two traversals of the loop state, the size of a leaf may
\* stay equal or grow from 1 to N; a traversal that finds any other
\* transition (N > 1 to another M > 1, or N > 1 to 1) fails, with
\* LoopSizeConflict (unless the size of the loop is found incompatible at an
\* earlier leaf), and LoopSizeConflict is raised for such a transition only.
C25_SizeTransitions ==
    \A p \in 1..Len(lp.passes) :
        LET pass == lp.passes[p]
        IN (~pass.first
            /\ pass.nodes = NamesAndTypes(pass.entries_before)) =>
              /\ BadSizes(pass) # {} =>
                    pass.err \in {"LoopSizeConflict", "LoopSizeIncompatible"}
              /\ pass.err = "LoopSizeConflict" => BadSizes(pass) # {}

\* The part of C25 that holds: a transition from N > 1 to another M > 1
\* fails, and LoopSizeConflict is raised for such a transition only.
C25_OtherSizeFails ==
    \A p \in 1..Len(lp.passes) :
        LET pass == lp.passes[p]
            shrunk == {j \in BadSizes(pass) : pass.sizes[j] = 1}
        IN (~pass.first
            /\ pass.nodes = NamesAndTypes(pass.entries_before)) =>
              /\ BadSizes(pass) \ shrunk # {} =>
                    pass.err \in {"LoopSizeConflict", "LoopSizeIncompatible"}
              /\ pass.err = "LoopSizeConflict" => BadSizes(pass) \ shrunk # {}

\* ---------------------------------------------------------------- C26
\* The paths of a state that pass through no object twice: those that start
\* at an item of the state tuple and go from an object to one of its
\* children, up to k more steps.
RECURSIVE SimplePathsUpTo(_, _, _)
SimplePathsUpTo(heap, P, k) ==
    IF k = 0 THEN P
    ELSE SimplePathsUpTo(
             heap,
             P \cup UNION {{Append(q, heap[q[Len(q)]].kids[j]) :
                              j \in {c \in 1..Len(heap[q[Len(q)]].kids) :
                                        \A m \in 1..Len(q) :
                                            q[m] # heap[q[Len(q)]].kids[c]}} :
                           q \in P},
             k - 1)

SimplePaths(heap, roots) ==
    SimplePathsUpTo(heap, {<<roots[j]>> : j \in 1..Len(roots)}, Len(heap))

NoRepeat(q) == \A m, n \in 1..Len(q) : q[m] = q[n] => m = n

\* A state with a container that contains itself, directly or not: some
\* child of the last object of a simple path is on the path.
Cyclic(heap, roots) ==
    \E q \in SimplePaths(heap, roots) :
        \E c \in 1..Len(heap[q[Len(q)]].kids) :
            \E m \in 1..Len(q) : q[m] = heap[q[Len(q)]].kids[c]

C26_Safe ==
    /\ lp.err # "StackExhausted"
    /\ \A p \in 1..Len(lp.passes) :
          LET pass == lp.passes[p]
          IN /\ pass.err # "StackExhausted"
             /\ \A k \in 1..Len(pass.paths) : NoRepeat(pass.paths[k])
             /\ pass.err = "none" =>
                   /\ pass.stack = <<>>
                   /\ {pass.paths[k] : k \in 1..Len(pass.paths)}
                         = SimplePaths(pass.heap, pass.roots)
                   /\ Len(pass.paths) = Cardinality(SimplePaths(pass.heap,
                                                                pass.roots))
                   /\ Len(pass.paths) = IF pass.first
                                        THEN Len(pass.entries_after)
                                        ELSE pass.entry_pos
    /\ lp.pc = "cleanup" =>
          /\ lp.ls.stack = [k \in 1..Len(lp.cl.frames) |-> lp.cl.frames[k].h]
          /\ NoRepeat(lp.ls.stack)
          /\ lp.cl.steps
                <= 1 + Cardinality(SimplePaths(lp.ls.heap, lp.ls.state))
    /\ (lp.pc = "returned" /\ lp.cl.steps > 0) => lp.ls.stack = <<>>

\* C26: a traversal of the loop state (read or write) and cleanup() end on
\* every state, also one with a container that contains itself, directly or
\* through another container: an object that is on the current path is not
\* entered again and takes no entry, so that a traversal visits exactly the
\* paths that pass through no object twice, one entry each; the stack is
\* empty when a traversal or cleanup() returns normally, and cleanup(), once
\* called, returns.
C26_TraversalTerminates ==
    /\ []C26_Safe
    /\ (lp.pc = "cleanup") ~> (lp.pc = "returned")

\* A list that contains a list that contains the first one was read,
\* written (three nodes each time) and cleaned up: the inner reference to
\* the outer list became None.
C26_Witness ==
    /\ lp.pc = "returned"
    /\ lp.cl.result =
          [kind |-> "tuple", ty |-> "tuple",
           items |-> <<[kind |-> "list", ty |-> "list",
                        items |-> <<[kind |-> "array", ty |-> "Float",
                                     items |-> <<>>],
                                    [kind |-> "list", ty |-> "list",
                                     items |-> <<CleanNone>>]>>]>>]
    /\ \E p \in 1..Len(lp.passes) :
          /\ lp.passes[p].kind = "write" /\ lp.passes[p].err = "none"
          /\ Cyclic(lp.passes[p].heap, lp.passes[p].roots)
          /\ Len(lp.passes[p].paths) = 3

\* ---------------------------------------------------------------- C27
\* The recording strategy has returned to ad_call: the call is in its AD
\* wrapping, has returned, or has failed in the AD wrapping.
RecordSucceeded ==
    /\ strategy = "record"
    /\ pc \in {"post", "returned"} \/ (pc = "raised" /\ err = "ADError")

\* The recording strategy has raised.
RecordRaised == strategy = "record" /\ pc = "raised" /\ err # "ADError"

\* C27: a recording strategy that succeeds emits the indirect call exactly
\* once: after the last user_fn invocation, with the terminal checkpoint
\* taken and the call mask popped, and before the recording scope is ended,
\* which is then ended disarmed (cleanup = false); a recording strategy that
\* raises emits no indirect call and ends its scope with cleanup = true.
C27_EmitOnce ==
    /\ strategy = "record" => Len(emitted) <= 1
    /\ RecordSucceeded =>
          /\ Len(emitted) = 1
          /\ emitted[1].calls = Len(user_calls)
          /\ emitted[1].checkpoints[callable_count + 1] = emitted[1].cursor
          /\ emitted[1].checkpoints = rec.checkpoints
          /\ emitted[1].masks = Len(EntryStack(flags.symbolic).mask)
          /\ emitted[1].ended = 0
          /\ stk.ended = <<FALSE>>
    /\ RecordRaised => emitted = <<>> /\ stk.ended = <<TRUE>>
    /\ (strategy = "record" /\ pc = "record") =>
          emitted = <<>> /\ stk.ended = <<>>

\* A recording call inside a symbolic region, with two callables that each
\* recorded something, has emitted its indirect call and returned.
C27_Witness ==
    /\ pc = "returned" /\ strategy = "record" /\ flags.symbolic
    /\ Len(user_calls) = 2 /\ Len(emitted) = 1
    /\ emitted[1].cursor > emitted[1].checkpoints[1]
    /\ stk.ended = <<FALSE>>

\* ---------------------------------------------------------------- C28
\* The ids among 1..n that the recording strategy has to record: the
\* registered ones, all of them when no domain is given.
RecordedIds(n) ==
    SortedSeq({c \in 1..n : ~inp.domain \/ c \in registry.live})

\* The number of rounds of the loop over the callables that have reached
\* their user_fn invocation: those that are complete and, after a failure in
\* a callable or in the check of its return values, the one that failed.
RoundsBegun == IF RecordRaised /\ err # "EmitError" THEN i + 1 ELSE i

\* C28: the recording strategy invokes user_fn once for each registered id
\* of 1..callable_count (each id when no domain is given), in increasing
\* order, and never for an unregistered id; during the invocation for id c
\* the self value is c and the call mask is the top of the mask stack; when
\* the invocation is over the self value is again the one before, before
\* the next callable starts.
C28_RecordedInOrder ==
    strategy = "record" =>
        /\ [n \in 1..Len(user_calls) |-> user_calls[n].self]
              = RecordedIds(RoundsBegun)
        /\ \A n \in 1..Len(user_calls) :
              /\ user_calls[n].mask = "call_mask"
              /\ user_calls[n].ptr = IF inp.domain
                                     THEN jit_registry_ptr(registry,
                                                           user_calls[n].self)
                                     ELSE user_calls[n].self - 1
              /\ user_calls[n].ptr # 0 \/ ~inp.domain
        /\ stk.self = EntryStack(flags.symbolic).self /\ stk.saved = <<>>
        /\ RecordSucceeded => RoundsBegun = callable_count

\* A recording call over a domain with the id 2 registered and the id 1
\* not, inside a symbolic region: user_fn ran once, for 2, with self = 2
\* under the call mask, and the self value of the region is back.
C28_Witness ==
    /\ pc = "returned" /\ strategy = "record" /\ inp.domain /\ flags.symbolic
    /\ callable_count = 2 /\ registry.live = {2}
    /\ Len(user_calls) = 1 /\ user_calls[1].self = 2
    /\ user_calls[1].mask = "call_mask" /\ stk.self.value = 9

\* ---------------------------------------------------------------- C29
\* C29: the first n_inst entries of the instance-id list that the recording
\* strategy hands to jit_var_call are the ids of the recorded callables, each
\* once and in increasing order, and the flat buffer of return values holds
\* n_inst groups of one handle per return slot, whichever ids of
\* 1..callable_count are unregistered.
C29_InstanceIds ==
    RecordSucceeded =>
        /\ SubSeq(emitted[1].inst_id, 1, emitted[1].n_inst)
              = RecordedIds(callable_count)
        /\ emitted[1].n_rv = emitted[1].n_inst * Len(rv)

\* The parts of C29 that hold: n_inst is the number of recorded callables,
\* the list holds the id c in its slot c for a recorded callable and 0 in the
\* slot of a skipped one, and the buffer holds n_inst groups when every
\* callable returned as many values as the first one.
C29_IdsBySlot ==
    RecordSucceeded =>
        /\ emitted[1].n_inst = Len(RecordedIds(callable_count))
        /\ Len(emitted[1].inst_id) = callable_count
        /\ \A c \in 1..callable_count :
              emitted[1].inst_id[c]
                 = IF \E n \in 1..emitted[1].n_inst :
                         RecordedIds(callable_count)[n] = c
                   THEN c ELSE 0
        /\ (\A n \in 1..Len(user_calls) :
               Len(user_calls[n].ret) = Len(user_calls[1].ret)) =>
              emitted[1].n_rv = emitted[1].n_inst * Len(rv)

\* ---------------------------------------------------------------- C30
\* The 0-based slots of the loop over the callables whose registry lookup
\* returned null.
SkippedSlots == {c \in 0..callable_count - 1 : Skipped(St, c)}

\* Entry c (0-based) of the checkpoints array handed to jit_var_call.
CheckpointAt(c) == emitted[1].checkpoints[c + 1]

\* C30: the checkpoints array of the recording strategy has
\* callable_count + 1 entries, non-decreasing in the slot index, and for
\* every skipped slot c >= 1 checkpoints[c] equals checkpoints[c - 1].
C30_Checkpoints ==
    RecordSucceeded =>
        /\ Len(emitted[1].checkpoints) = callable_count + 1
        /\ \A c \in 1..callable_count : CheckpointAt(c - 1) <= CheckpointAt(c)
        /\ \A c \in SkippedSlots :
              c >= 1 => CheckpointAt(c) = CheckpointAt(c - 1)

\* The parts of C30 that hold: callable_count + 1 non-decreasing entries,
\* and the region of a skipped slot c is empty: checkpoints[c + 1] equals
\* checkpoints[c].
C30_SkippedRegionEmpty ==
    RecordSucceeded =>
        /\ Len(emitted[1].checkpoints) = callable_count + 1
        /\ \A c \in 1..callable_count : CheckpointAt(c - 1) <= CheckpointAt(c)
        /\ \A c \in SkippedSlots : CheckpointAt(c + 1) = CheckpointAt(c)

\* ---------------------------------------------------------------- C31
\* A strategy that checks what its callables return has come to its end
\* without a failure.
StrategySucceeded ==
    /\ strategy \in {"getter", "record", "reduce"}
    /\ pc \in {"post", "returned"} \/ (pc = "raised" /\ err = "ADError")

\* The type of a value of one of the kinds user_fn returns.
KindType(kind) == IF kind = "T" THEN "u32" ELSE "f32"

\* The invocations that returned values, the first of which fixes the types.
Returning == {n \in 1..Len(user_calls) : user_calls[n].ret # <<>>}

\* C31: a value of another backend than the call's, returned by any
\* callable, the first one included, fails the call (ReturnBackendMismatch),
\* and so does a value of another type than the first callable's in the same
\* slot, returned by a later callable (ReturnTypeMismatch): a call succeeds
\* only if every value returned is of the call's backend and the callables
\* agree on the type of every slot.
C31_ReturnChecks ==
    StrategySucceeded =>
        /\ \A n \in 1..Len(user_calls) :
              \A j \in 1..Len(user_calls[n].ret) : user_calls[n].ret[j] # "B"
        /\ \A m, n \in Returning :
              \A j \in 1..Len(user_calls[n].ret) :
                 j <= Len(user_calls[m].ret) =>
                    KindType(user_calls[m].ret[j]) = KindType(user_calls[n].ret[j])

\* The part of C31 that holds: the callables agree on the type of every
\* slot, and no callable after the first one that returned values has
\* returned a value of another backend.
C31_LaterCallablesChecked ==
    StrategySucceeded =>
        /\ \A n \in Returning :
              n # Min(Returning) =>
                 \A j \in 1..Len(user_calls[n].ret) : user_calls[n].ret[j] # "B"
        /\ \A m, n \in Returning :
              \A j \in 1..Len(user_calls[n].ret) :
                 j <= Len(user_calls[m].ret) =>
                    KindType(user_calls[m].ret[j]) = KindType(user_calls[n].ret[j])

\* ---------------------------------------------------------------- C32
\* The ids of the buckets of the evaluated strategy that are not the null
\* instance, in the order of the buckets.
RECURSIVE BucketIds(_)
BucketIds(buckets) ==
    IF buckets = <<>> THEN <<>>
    ELSE (IF Head(buckets).id = 0 THEN <<>> ELSE <<Head(buckets).id>>)
         \o BucketIds(Tail(buckets))

\* The instance id of the callable of the n-th user_fn invocation of a call
\* without a domain: the getter and the recording strategy go through the
\* ids 1, 2, ... and the evaluated strategy through its buckets.
CallableId(n) ==
    IF strategy = "reduce" THEN BucketIds(red.buckets)[n] ELSE n

NoDomainCall ==
    ~inp.domain /\ strategy \in {"getter", "record", "reduce"}

\* C32: without a domain the instance pointer that user_fn receives for the
\* callable with the instance id c is c itself, in the getter, the recording
\* and the evaluated strategy alike; the null pointer is passed in the
\* degenerate case only.
C32_RawIndexPointer ==
    /\ NoDomainCall =>
          \A n \in 1..Len(user_calls) :
              user_calls[n].ptr = CallableId(n) /\ user_calls[n].ptr # 0
    /\ strategy = "degenerate" =>
          \A n \in 1..Len(user_calls) : user_calls[n].ptr = 0

\* The part of C32 that holds: the three strategies pass the same value for
\* the same callable, the 0-based index c - 1, and the degenerate case
\* passes the null pointer.
C32_ZeroBasedPointer ==
    /\ NoDomainCall =>
          \A n \in 1..Len(user_calls) :
              user_calls[n].ptr = CallableId(n) - 1
    /\ strategy = "degenerate" =>
          \A n \in 1..Len(user_calls) : user_calls[n].ptr = 0

\* ---------------------------------------------------------------- C33
\* The buckets that are processed: those of an id other than 0, in the
\* order of the bucket array.
RECURSIVE Processed(_)
Processed(buckets) ==
    IF buckets = <<>> THEN <<>>
    ELSE (IF Head(buckets).id = 0 THEN <<>> ELSE <<Head(buckets)>>)
         \o Processed(Tail(buckets))

\* C33: the evaluated strategy goes through the buckets in increasing id
\* order; a bucket of the id 0 is passed over without a user_fn invocation
\* and without a mask being pushed; between the user_fn invocations of two
\* buckets processed one after the other that have the same wavefront size
\* an evaluation is forced (and none is forced between two of different
\* sizes).
C33_BucketsInOrder ==
    strategy = "reduce" =>
        LET done == Processed(SubSeq(red.buckets, 1, i))
            all  == Processed(red.buckets)
        IN /\ \A n \in 2..Len(all) : all[n - 1].id < all[n].id
           /\ Len(user_calls) \in {Len(done), Len(done) + 1}
           /\ Len(user_calls) = Len(done) + 1 => pc = "raised"
           /\ \A n \in 1..Len(user_calls) :
                 /\ user_calls[n].mask = "default"
                 /\ user_calls[n].ptr = IF inp.domain THEN 100 + all[n].id
                                        ELSE all[n].id - 1
           /\ \A n \in 2..Len(user_calls) :
                 (Len(all[n - 1].perm) = Len(all[n].perm))
                    <=> (\E e \in 1..Len(red.eval_calls) :
                            red.eval_calls[e] = n - 1)
           /\ \A e \in 1..Len(red.eval_calls) : red.eval_calls[e] >= 1
           /\ stk.mask = EntryStack(flags.symbolic).mask

\* The evaluated strategy has processed the buckets of the ids 1 and 2, of
\* one lane each, with an evaluation between the two invocations.
C33_Witness ==
    /\ strategy = "reduce" /\ pc = "returned"
    /\ Len(user_calls) = 2 /\ red.eval_calls = <<1>>
    /\ Len(red.buckets) = 2

\* The evaluated strategy has passed over the bucket of the id 0 and
\* processed the bucket of the id 1.
C33_SkippedNull ==
    /\ strategy = "reduce" /\ pc = "returned"
    /\ Len(red.buckets) = 2 /\ red.buckets[1].id = 0
    /\ Len(user_calls) = 1

\* ---------------------------------------------------------------- C34
\* The positions (1-based) in the bucket array of the buckets that are
\* processed.
ProcessedAt ==
    SortedSeq({b \in 1..Len(red.buckets) : red.buckets[b].id # 0})

\* instance_index gathered through the permutation of a bucket.
GatheredIndex(b) == [q \in 1..Len(b.perm) |-> Lane(red.index, b.perm[q])]

\* C34: during the user_fn invocation of the evaluated strategy for a bucket
\* (id, perm) the self value is the id of the bucket and the per-lane self
\* variable is instance_index gathered through perm, whatever the bucket
\* array holds (a bucket of the id 0, ids that are missing); the self value
\* of before is back when the bucket is done.
C34_SelfIsBucketId ==
    strategy = "reduce" =>
        /\ \A n \in 1..Len(user_calls) :
              /\ user_calls[n].self = red.buckets[ProcessedAt[n]].id
              /\ user_calls[n].self_index
                    = GatheredIndex(red.buckets[ProcessedAt[n]])
        /\ stk.self = EntryStack(flags.symbolic).self /\ stk.saved = <<>>

\* The part of C34 that holds: the self value is the position of the bucket
\* in the bucket array, the per-lane self variable is instance_index
\* gathered through perm, and the self value of before is back afterwards.
C34_SelfIsBucketPosition ==
    strategy = "reduce" =>
        /\ \A n \in 1..Len(user_calls) :
              /\ user_calls[n].self = ProcessedAt[n]
              /\ user_calls[n].self_index
                    = GatheredIndex(red.buckets[ProcessedAt[n]])
        /\ stk.self = EntryStack(flags.symbolic).self /\ stk.saved = <<>>

\* ---------------------------------------------------------------- C35
\* The bucket the loop of the evaluated strategy stands at has an id that
\* the registry does not resolve.
AtUnregisteredBucket ==
    /\ i < Len(red.buckets)
    /\ red.buckets[i + 1].id # 0
    /\ red.buckets[i + 1].id \notin registry.live

\* C35: with a domain, the evaluated strategy fails with RegistryMiss at a
\* bucket whose id the registry does not resolve: user_fn is not invoked for
\* that bucket, the mask pushed for it is popped again and cleanup_fn is
\* invoked once; a call of the evaluated strategy that gets through has
\* buckets of registered ids only. The getter and the recording strategy
\* pass over an id that does not resolve and never raise RegistryMiss.
C35_RegistryMiss ==
    /\ (strategy = "reduce" /\ inp.domain) =>
          /\ (pc = "raised" /\ AtUnregisteredBucket) => err = "RegistryMiss"
          /\ err = "RegistryMiss" =>
                /\ pc = "raised" /\ AtUnregisteredBucket
                /\ Len(user_calls) = Len(Processed(SubSeq(red.buckets, 1, i)))
                /\ stk.mask = EntryStack(flags.symbolic).mask
                /\ stk.frames = <<>>
                /\ cleanup_calls = IF inp.cleanup THEN <<"catch">> ELSE <<>>
          /\ StrategySucceeded =>
                \A b \in 1..Len(red.buckets) :
                    red.buckets[b].id = 0
                    \/ red.buckets[b].id \in registry.live
          /\ \A n \in 1..Len(user_calls) : user_calls[n].ptr # 0
    /\ strategy \in {"getter", "record", "degenerate"} =>
          err # "RegistryMiss"
    /\ (strategy \in {"getter", "record"} /\ inp.domain) =>
          /\ \A n \in 1..Len(user_calls) :
                user_calls[n].ptr \in {100 + c : c \in registry.live}
          /\ StrategySucceeded =>
                Len(user_calls) = Cardinality(registry.live
                                              \cap 1..callable_count)

\* The evaluated strategy has processed the bucket of the registered id 1
\* and failed at the bucket of the id 2, which is not registered; cleanup_fn
\* has run once.
C35_Witness ==
    /\ strategy = "reduce" /\ inp.domain /\ inp.cleanup
    /\ pc = "raised" /\ err = "RegistryMiss"
    /\ registry.live = {1} /\ Len(user_calls) = 1
    /\ cleanup_calls = <<"catch">>

\* The recording strategy has passed over the id 1, which is not
\* registered, and returned.
C35_RecordSkips ==
    /\ strategy = "record" /\ inp.domain /\ pc = "returned"
    /\ registry.live = {2} /\ Len(user_calls) = 1

\* ---------------------------------------------------------------- C36
\* The invocations of the getter that returned a value of another size
\* than 1.
NonScalarCalls ==
    {n \in 1..Len(user_calls) :
        \E j \in 1..Len(user_calls[n].ret) : user_calls[n].ret[j] = "W"}

C36_SuccessDiscards ==
    /\ strategy = "getter" /\ pc = "returned" /\ Len(user_calls) = 2
    /\ stk.ended = <<TRUE, TRUE>>

\* ---------------------------------------------------------------- C37
\* The number of values a callback of the pass must hand back per callable.
ExpectedPerCallable ==
    IF bwd.mode = "forward" THEN Len(op.output_offsets)
    ELSE Len(op.input_offsets)

\* C37: the call that CallOp::forward or CallOp::backward makes runs with AD
\* disabled and without a cleanup function: it constructs no CallOp of its
\* own and never invokes the cleanup of the payload, whether it returns or
\* raises, so the payload is still cleaned up by nobody but the destructor
\* of the attached CallOp; and every invocation of the forward callback hands
\* back one value per registered output, every invocation of the backward
\* callback one per registered input.
C37_ReentrantCall ==
    bwd.state # "idle" =>
        /\ bwd.nested = "none"
        /\ bwd.cleanup_calls = <<>>
        /\ op.state = "attached" => cleanup_calls = <<>>
        /\ \A c \in 1..Len(bwd.calls) : bwd.calls[c].n_rv = ExpectedPerCallable

\* The backward call raised although the payload has a cleanup function.
C37_Witness ==
    /\ bwd.state = "raised" /\ bwd.mode = "backward" /\ inp.cleanup
    /\ op.state = "attached" /\ op.deleter

\* ---------------------------------------------------------------- C38
\* The leaf arrays of a loop state in the order of a traversal.
LeafOrder(heap, roots) ==
    LET ps == traverse_roots(FALSE, [LsNone EXCEPT !.heap = heap,
                                                   !.state = roots], 1).paths
        hs == [j \in 1..Len(ps) |-> Last(ps[j])]
    IN SelectSeq(hs, LAMBDA h : heap[h].kind = "array")

\* The variables of the leaves of a loop state in the order of a traversal.
LeafIndices(heap, roots) ==
    LET leaves == LeafOrder(heap, roots)
    IN [j \in 1..Len(leaves) |->
           [idx |-> heap[leaves[j]].idx, size |-> heap[leaves[j]].size]]

\* C38: a write traversal assigns the indices provided to the leaves in the
\* order of the traversal, one index per leaf, and fails with the internal
\* error whenever the number of indices provided differs from the number of
\* leaves, too few as well as too many; a read traversal appends one index
\* per leaf in that same order, so writing back the indices that were just
\* read leaves the variable of every leaf unchanged.
C38_IndicesPerLeaf ==
    lp.passes # <<>> =>
        LET p == Last(lp.passes)
            leaves == LeafOrder(p.heap, p.roots)
            provided == lp.ls.indices
        IN /\ (p.kind = "write" /\ Len(provided) # Len(leaves)) =>
                 p.err = "InternalError" /\ lp.pc = "raised"
           /\ (p.kind = "write" /\ Len(provided) = Len(leaves)) =>
                 /\ p.err = "none"
                 /\ LeafIndices(lp.ls.heap, lp.ls.state) = provided
                 /\ provided = LeafIndices(p.heap, p.roots) =>
                        lp.ls.heap = p.heap
           /\ (p.kind = "read" /\ p.err = "none") =>
                 provided = LeafIndices(p.heap, p.roots)

\* A list of two arrays followed by an array was read and three variables
\* and one more were written back.
C38_Witness ==
    /\ lp.passes # <<>> /\ Last(lp.passes).kind = "write"
    /\ Len(LeafOrder(Last(lp.passes).heap, Last(lp.passes).roots)) = 3
    /\ Len(lp.ls.indices) = 4
    /\ lp.err = "InternalError"

\* ---------------------------------------------------------------- C39
\* C39: the IfState that a non-scalar if_stmt call allocated is destroyed
\* once on every path and not used afterwards: by if_stmt itself when the
\* driver returned true, by the delete callback when the driver raised or,
\* when the driver returned false, when the AD operation that kept it is
\* destroyed, which finds rv reset; also when uncopy raises after the driver
\* has returned.
C39_StateDestroyedOnce ==
    ifs.is.state # "none" =>
        /\ ifs.is.deletes = IF ifs.is.state = "deleted" THEN 1 ELSE 0
        /\ ifs.pc \in {"returned", "raised"} =>
              ifs.is.state \in {"deleted", "retained"}
        /\ (ifs.pc \in {"returned", "raised"} /\ ifs.is.state = "retained") =>
              ~ifs.is.rv_valid

\* What holds: unless uncopy raises, the IfState is destroyed once, or kept
\* with rv reset by an AD operation whose destruction destroys it; when
\* uncopy raises it is never destroyed twice.
C39_DestroyedUnlessUncopyRaises ==
    ifs.is.state # "none" =>
        /\ ifs.is.deletes = IF ifs.is.state = "deleted" THEN 1 ELSE 0
        /\ (ifs.pc \in {"returned", "raised"} /\ ifs.err # "UncopyError") =>
              /\ ifs.is.state \in {"deleted", "retained"}
              /\ ifs.is.state = "retained" => ~ifs.is.rv_valid

\* ---------------------------------------------------------------- C40
\* The objects call c was made with, as that branch left them.
LeftBehind(c) == BranchEffect(BranchFn(ifs, ifs.calls[c]), ifs.seen[c])

\* Call c left a pending side effect in its argument j.
Dirtied(c, j) ==
    LeftBehind(c)[j].dirty /\ LeftBehind(c)[j].idx # ifs.seen[c][j].idx

\* The caller's argument tuple after the first c branch calls: the objects
\* the caller passed, holding what they held, but for the arguments a call
\* left dirty, which hold what that call left.
RECURSIVE CallerAfter(_)
CallerAfter(c) ==
    IF c = 0 THEN CallerObjects(ifs.args)
    ELSE [j \in 1..Len(ifs.args) |->
             IF Dirtied(c, j)
             THEN Obj(j, LeftBehind(c)[j].idx, TRUE, LeftBehind(c)[j].arr)
             ELSE CallerAfter(c - 1)[j]]

\* C40: in a non-scalar if_stmt each branch is called with objects of its
\* own, copies of the caller's arguments, so that what the branch run first
\* assigns to its arguments is not seen by the branch run second and the
\* caller's tuple holds what it held, except for the arguments that a branch
\* left dirty, which alone are propagated back.
C40_BranchCopies ==
    ifs.is.state # "none" =>
        /\ \A c \in 1..Len(ifs.seen) : \A j \in 1..Len(ifs.seen[c]) :
              /\ \A k \in 1..Len(ifs.cur) : ifs.seen[c][j].obj # ifs.cur[k].obj
              /\ \A d \in 1..Len(ifs.seen) : \A k \in 1..Len(ifs.seen[d]) :
                    d # c => ifs.seen[c][j].obj # ifs.seen[d][k].obj
        /\ \A c \in 1..Len(ifs.seen) :
              Values(ifs.seen[c]) = Values(CallerAfter(c - 1))
        /\ ifs.cur = CallerAfter(Len(ifs.seen))

\* The branch that assigns to its argument ran first, the other branch was
\* called with what the caller passed, and the caller's tuple is as it was.
C40_Witness ==
    /\ ifs.pc = "returned" /\ ifs.is.state # "none"
    /\ ifs.program = "bumps" /\ ifs.calls = <<TRUE, FALSE>>
    /\ LeftBehind(1)[1].arr.val = <<2, 3>>
    /\ Values(ifs.seen[2]) = ifs.args
    /\ ifs.cur = CallerObjects(ifs.args)

====
